---- MODULE Spec2Model ----
(***************************************************************************)
(* Payment-state reconciliation of the shulegram payment backend: the      *)
(* transaction ledger (payment-transactions/), the booking stores          *)
(* (bookings/, tuition-bookings/) and the handlers of the three controller *)
(* variants found in the repository (basic, extended, production).         *)
(*                                                                         *)
(* A stored record is a function from the names of the fields it holds to  *)
(* their values; a path that holds nothing is the empty function, as in    *)
(* the Firebase Realtime Database (update on an empty path creates it).    *)
(* Timestamps are kept as the mark Stamp: the model records that a time    *)
(* was written, not which.                                                 *)
(***************************************************************************)
EXTENDS Integers, Sequences, FiniteSets, TLC

\* ------------------------------------------------------------------ bounds
MaxAttempts == 1
MaxLog == 2
MaxTasks == 1
MaxRetry == 1

\* A payment attempt draws at most two references (an init_ and a chg_ one):
\* the k-th attempt's are 2k-1 and 2k.
RefIds == 1..(2 * MaxAttempts)
FirstRef(k) == 2 * k - 1
SecondRef(k) == 2 * k
BookingIds == {"bk1"}
Variants == {"basic", "ext", "prod"}
\* A display amount (a JS number, with decimals) is held as its count of
\* thousandths of a shilling; a gateway amount is an integer of minor units.
Shillings(n) == n * 1000

Amounts == {Shillings(500)}
Stamp == "t"

\* The clients whose requests the server may be handling at the same time.
Clients == {1, 2}

VARIABLES
  variant,    \* the controller variant the deployment runs
  config,     \* [secretSet, isProduction, keyLive]: the process environment
  ledger,     \* payment-transactions/{reference}
  bookings,   \* bookings/{bookingId}
  tuition,    \* tuition-bookings/{bookingId}
  gw,         \* the gateway's own record of each reference submitted to it
  nrefs,      \* how many payment attempts have drawn references
  tasks,      \* store writes dispatched with setImmediate and not yet run
  errlog,     \* references named by an ERROR entry of the operator log
  last,       \* the last request handled: [op, code]
  inflight    \* per client, the request of it that is being handled or was
              \* answered last: what the handler read before its await, then
              \* its answer

vars == <<variant, config, ledger, bookings, tuition, gw, nrefs, tasks, errlog, last, inflight>>

\* ------------------------------------------------------- record store
Absent == <<>>

Exists(rec) == DOMAIN rec # {}

Get(rec, k, d) == IF k \in DOMAIN rec THEN rec[k] ELSE d

\* ref.update(upd): merge semantics, the fields of upd replace those stored.
Update(rec, upd) == upd @@ rec

\* ref.child('activityLog').push().set(entry)
Push(rec, entry) ==
  ("activityLog" :> Append(Get(rec, "activityLog", <<>>), entry)) @@ rec

\* The three stores as one value, for the handlers (which are functions of it).
DB == [tx |-> ledger, bk |-> bookings, tb |-> tuition]

Result(db, code) == [db |-> db, code |-> code]

\* ------------------------------------------------------------ amounts
\* Math.round(amount * 100)
Kobo(a) == (a + 5) \div 10

\* amount / 100 on a gateway amount
FromKobo(m) == m * 10

\* --------------------------------------------------------- metadata
\* The metadata a client sends: undefined (hasMeta = FALSE), or an object
\* that may carry payment_type.
PaymentTypes == {"booking_fee", "escrow"}

MetaObjects == {<<>>} \cup {("payment_type" :> p) : p \in PaymentTypes}

\* metadata: { booking_id: bookingId, ...metadata }
GatewayMetadata(bookingId, hasMeta, meta) ==
  IF hasMeta THEN meta @@ ("booking_id" :> bookingId)
  ELSE ("booking_id" :> bookingId)

\* The store keeps no empty object: an empty metadata leaves no metadata field.
StoredMetadata(meta) == IF meta = <<>> THEN <<>> ELSE ("metadata" :> meta)

\* ------------------------------------------- basic controller: initialize
\* gwAns: "ok" (status true), "rejected" (status false), "error" (the call throws)
GatewayRecord(amountInKobo, metadata) ==
  [status |-> "abandoned", amount |-> amountInKobo, metadata |-> metadata,
   emitted |-> {}]

initializePaymentBasic(db, ref, amount, bookingId, hasMeta, meta, gwAns) ==
  IF amount = 0 THEN Result(db, 400)
  ELSE IF gwAns = "error" THEN Result(db, 500)
  ELSE IF gwAns = "rejected" THEN Result(db, 400)
  ELSE IF ~hasMeta THEN Result(db, 500)   \* set() refuses an undefined property
  ELSE Result([db EXCEPT !.tx[ref] =
                 [reference |-> ref, bookingId |-> bookingId, email |-> "a@b.com",
                  amount |-> amount, status |-> "pending", createdAt |-> Stamp]
                 @@ StoredMetadata(meta)], 200)

\* ------------------------------------------------- basic controller: verify
\* The fields verifyPayment writes on the ledger, from the gateway's answer.
VerifyUpdate(g) ==
  [status |-> g.status, verifiedAt |-> Stamp, channel |-> "mobile_money"]
  @@ (IF g.status = "abandoned" THEN <<>>
      ELSE ("gateway_response" :> (IF g.status = "success" THEN "Successful" ELSE "Declined")))
  @@ (IF g.status = "success" THEN ("paid_at" :> Stamp) ELSE <<>>)

verifyPaymentBasic(db, ref, g) ==
  LET db1 == [db EXCEPT !.tx[ref] = Update(@, VerifyUpdate(g))]
      bookingId == g.metadata["booking_id"]
      paymentType == Get(g.metadata, "payment_type", "booking")
  IN IF g.status = "success" /\ paymentType = "booking_fee"
       THEN Result([db1 EXCEPT !.bk[bookingId] = Update(@,
              [bookingFeePaid |-> TRUE, bookingFeeReference |-> ref,
               bookingFeePaidAt |-> Stamp, status |-> "negotiating"])], 200)
     ELSE IF g.status = "success" /\ paymentType = "escrow"
       THEN Result([db1 EXCEPT !.bk[bookingId] = Update(@,
              [escrowPaid |-> TRUE, escrowAmount |-> FromKobo(g.amount),
               escrowReference |-> ref, escrowPaidAt |-> Stamp,
               escrowStatus |-> "held"])], 200)
     ELSE Result(db1, 200)

\* --------------------------------------------- webhook signature verifier
\* sig: what the x-paystack-signature header holds, relative to the HMAC-SHA512
\* of the body under the shared secret: "absent", "valid" (equal to it), "wrong"
\* (another hex string of that length), "short" (another length: timingSafeEqual
\* throws and the catch answers false).
Signatures == {"absent", "valid", "wrong", "short"}

\* The comparison with the expected HMAC left out: any header is accepted.
verifyWebhookSignatureUncompared(secret, sig) ==
  secret /\ sig # "absent"

verifyWebhookSignature(secret, sig) ==
  IF ~secret THEN FALSE
  ELSE IF sig = "absent" THEN FALSE
  ELSE IF sig = "short" THEN FALSE
  ELSE sig = "valid"

\* How a call of verifyWebhookSignature ends. The try block: no secret and no
\* header return false; timingSafeEqual throws a RangeError on buffers of
\* different length and compares otherwise.
signatureTryBlock(secret, sig) ==
  IF ~secret THEN "false"
  ELSE IF sig = "absent" THEN "false"
  ELSE IF sig = "short" THEN "throws"
  ELSE IF sig = "valid" THEN "true"
  ELSE "false"

\* catch (error) { return false }
verifyWebhookSignatureOutcome(secret, sig) ==
  IF signatureTryBlock(secret, sig) = "throws" THEN "false"
  ELSE signatureTryBlock(secret, sig)

\* ------------------------------------------------ webhook events
\* case 'subscription.create': case 'subscription.disable': case 'subscription.not_renew':
SubscriptionEvents == {"subscription.create", "subscription.disable", "subscription.not_renew"}

\* eventType.split('.')[1]
SubscriptionStatus(event) ==
  CASE event = "subscription.create" -> "create"
    [] event = "subscription.disable" -> "disable"
    [] OTHER -> "not_renew"

\* ------------------------------------------------ basic controller: webhook
\* req: [sig, event, reference, metadata, amount, gateway_response]; a
\* gateway_response of "" is an absent one.
WebhookCommon(req, transaction) ==
  [lastWebhookEvent |-> req.event, lastWebhookReceived |-> Stamp,
   amount |-> IF req.amount # 0 THEN FromKobo(req.amount) ELSE transaction.amount]

MergedMetadata(transaction, req) ==
  req.metadata @@ Get(transaction, "metadata", <<>>)

BookingUpdateBasic(req) ==
  [lastUpdated |-> Stamp,
   status |-> IF Get(req.metadata, "payment_type", "") = "booking_fee"
              THEN "negotiating" ELSE "confirmed"]
  @@ (IF Get(req.metadata, "payment_type", "") = "booking_fee"
        THEN [bookingFeePaid |-> TRUE, bookingFeeReference |-> req.reference,
              bookingFeePaidAt |-> Stamp]
      ELSE IF Get(req.metadata, "payment_type", "") = "escrow"
        THEN [escrowPaid |-> TRUE, escrowAmount |-> FromKobo(req.amount),
              escrowReference |-> req.reference, escrowPaidAt |-> Stamp,
              escrowStatus |-> "held"]
      ELSE <<>>)

handleWebhookBasic(db, secret, req) ==
  IF ~verifyWebhookSignature(secret, req.sig) THEN Result(db, 401)
  ELSE IF req.reference = 0 THEN Result(db, 400)
  ELSE IF ~Exists(db.tx[req.reference]) THEN Result(db, 404)
  ELSE
    LET transaction == db.tx[req.reference]
        bookingId == Get(req.metadata, "booking_id", Get(transaction, "bookingId", ""))
        updateData == WebhookCommon(req, transaction)
    IN CASE req.event = "charge.success" ->
              LET db1 == [db EXCEPT !.tx[req.reference] = Update(@,
                            [status |-> "success", completedAt |-> Stamp,
                             webhookReceived |-> TRUE,
                             metadata |-> MergedMetadata(transaction, req)]
                            @@ updateData)]
              IN IF bookingId # ""
                   THEN Result([db1 EXCEPT !.bk[bookingId] =
                                  Update(@, BookingUpdateBasic(req))], 200)
                 ELSE Result(db1, 200)
         [] req.event = "charge.failed" ->
              Result([db EXCEPT !.tx[req.reference] = Update(@,
                        [status |-> "failed", failedAt |-> Stamp,
                         failureReason |-> IF req.gateway_response # ""
                                           THEN req.gateway_response
                                           ELSE "Unknown error",
                         metadata |-> MergedMetadata(transaction, req)]
                        @@ updateData)], 200)
         [] req.event = "transfer.success" ->
              Result([db EXCEPT !.tx[req.reference] = Update(@,
                        [transferStatus |-> "success", transferCompletedAt |-> Stamp]
                        @@ updateData)], 200)
         [] req.event = "transfer.failed" ->
              Result([db EXCEPT !.tx[req.reference] = Update(@,
                        [transferStatus |-> "failed", transferFailedAt |-> Stamp,
                         transferFailureReason |-> IF req.gateway_response # ""
                                                   THEN req.gateway_response
                                                   ELSE "Unknown error"]
                        @@ updateData)], 200)
         [] req.event \in SubscriptionEvents ->
              Result([db EXCEPT !.tx[req.reference] = Update(@,
                        [subscriptionStatus |-> SubscriptionStatus(req.event),
                         lastSubscriptionEvent |-> Stamp]
                        @@ updateData)], 200)
         [] OTHER ->
              Result([db EXCEPT !.tx[req.reference] = Update(@,
                        [notes |-> "Unhandled event type"] @@ updateData)], 200)

\* ------------------------------------------------------- escrow release
\* store: "bk" (bookings/, basic controller) or "tb" (tuition-bookings/, extended)
\* The handler without its check of the two completion marks.
releaseEscrowUnconfirmed(db, store, bookingId) ==
  LET booking == db[store][bookingId]
  IN IF ~Exists(booking) THEN Result(db, 404)
     ELSE IF Get(booking, "escrowStatus", "") = "released" THEN Result(db, 400)
     ELSE Result([db EXCEPT ![store][bookingId] = Update(@,
                    [escrowStatus |-> "released", paymentStatus |-> "paid",
                     paidAt |-> Stamp, status |-> "completed"])], 200)

\* The handler without its check of an earlier release.
releaseEscrowRepeatable(db, store, bookingId) ==
  LET booking == db[store][bookingId]
  IN IF ~Exists(booking) THEN Result(db, 404)
     ELSE IF ~("parentCompletedAt" \in DOMAIN booking)
             \/ ~("teacherCompletedAt" \in DOMAIN booking) THEN Result(db, 400)
     ELSE Result([db EXCEPT ![store][bookingId] = Update(@,
                    [escrowStatus |-> "released", paymentStatus |-> "paid",
                     paidAt |-> Stamp, status |-> "completed"])], 200)

\* The handler from its read of the booking on: booking is what
\* `await bookingRef.once('value')` returned, db the store at the write.
releaseEscrowAfterRead(db, store, bookingId, booking) ==
  IF ~Exists(booking) THEN Result(db, 404)
  ELSE IF ~("parentCompletedAt" \in DOMAIN booking)
          \/ ~("teacherCompletedAt" \in DOMAIN booking) THEN Result(db, 400)
  ELSE IF Get(booking, "escrowStatus", "") = "released" THEN Result(db, 400)
  ELSE Result([db EXCEPT ![store][bookingId] = Update(@,
                 [escrowStatus |-> "released", paymentStatus |-> "paid",
                  paidAt |-> Stamp, status |-> "completed"])], 200)

releaseEscrow(db, store, bookingId) ==
  releaseEscrowAfterRead(db, store, bookingId, db[store][bookingId])

\* ---------------------------------------- extended controller: initialize
initializePaymentExt(db, ref, amount, bookingId, hasMeta, meta, gwAns) ==
  IF amount = 0 THEN Result(db, 400)
  ELSE IF gwAns = "error" THEN Result(db, 500)
  ELSE IF gwAns = "rejected" THEN Result(db, 400)
  ELSE IF ~hasMeta THEN Result(db, 500)   \* set() refuses an undefined property
  ELSE Result([db EXCEPT !.tx[ref] =
                 [reference |-> ref, bookingId |-> bookingId, email |-> "a@b.com",
                  amount |-> amount, status |-> "pending", createdAt |-> Stamp,
                  paymentMethod |-> "unknown", source |-> "api"]
                 @@ StoredMetadata(meta)], 200)

\* -------------------------------------------- extended controller: verify
ActivityEntry(ref, g, currentBooking) ==
  [action |-> "negotiation_unlocked", timestamp |-> Stamp, paymentReference |-> ref,
   amount |-> FromKobo(g.amount), triggeredBy |-> "payment_verification",
   previousStatus |-> Get(currentBooking, "status", "pending"),
   newStatus |-> "negotiating"]

\* The handler with the log entry appended before the booking update.
verifyPaymentExtAppendFirst(db, ref, g, currentBooking) ==
  LET db1 == [db EXCEPT !.tx[ref] = Update(@, VerifyUpdate(g))]
      bookingId == g.metadata["booking_id"]
      paymentType == Get(g.metadata, "payment_type", "booking")
  IN IF g.status = "success" /\ paymentType = "booking_fee"
       THEN Result([db1 EXCEPT !.tb[bookingId] =
              Update(Push(@, ActivityEntry(ref, g, currentBooking)),
                     [bookingFeePaid |-> TRUE, bookingFeeReference |-> ref,
                      bookingFeePaidAt |-> Stamp, status |-> "negotiating",
                      negotiationUnlocked |-> TRUE, negotiationUnlockedAt |-> Stamp,
                      negotiation |-> [status |-> "ready"]]
                     @@ currentBooking)], 200)
     ELSE IF g.status = "success" /\ paymentType = "escrow"
       THEN Result([db1 EXCEPT !.tb[bookingId] = Update(@,
              [escrowPaid |-> TRUE, escrowAmount |-> FromKobo(g.amount),
               escrowReference |-> ref, escrowPaidAt |-> Stamp,
               escrowStatus |-> "held"])], 200)
     ELSE Result(db1, 200)

\* The handler from its ledger update on, currentBooking being what its read of
\* tuition-bookings/{bookingId} returned and db the stores its writes meet.
verifyPaymentExtAfterRead(db, ref, g, currentBooking) ==
  LET db1 == [db EXCEPT !.tx[ref] = Update(@, VerifyUpdate(g))]
      bookingId == g.metadata["booking_id"]
      paymentType == Get(g.metadata, "payment_type", "booking")
  IN IF g.status = "success" /\ paymentType = "booking_fee"
       THEN Result([db1 EXCEPT !.tb[bookingId] =
              Push(Update(@,
                     [bookingFeePaid |-> TRUE, bookingFeeReference |-> ref,
                      bookingFeePaidAt |-> Stamp, status |-> "negotiating",
                      negotiationUnlocked |-> TRUE, negotiationUnlockedAt |-> Stamp,
                      negotiation |-> [status |-> "ready"]]
                     @@ currentBooking),
                   ActivityEntry(ref, g, currentBooking))], 200)
     ELSE IF g.status = "success" /\ paymentType = "escrow"
       THEN Result([db1 EXCEPT !.tb[bookingId] = Update(@,
              [escrowPaid |-> TRUE, escrowAmount |-> FromKobo(g.amount),
               escrowReference |-> ref, escrowPaidAt |-> Stamp,
               escrowStatus |-> "held"])], 200)
     ELSE Result(db1, 200)

\* A request served with nothing else writing between its read and its writes.
verifyPaymentExt(db, ref, g) ==
  verifyPaymentExtAfterRead(db, ref, g, db.tb[g.metadata["booking_id"]])

\* ------------------------------------------- extended controller: webhook
ActivityEntryWebhook(req, currentBooking) ==
  [action |-> "negotiation_unlocked", timestamp |-> Stamp,
   paymentReference |-> req.reference, amount |-> FromKobo(req.amount),
   triggeredBy |-> "payment_success",
   previousStatus |-> Get(currentBooking, "status", "pending"),
   newStatus |-> "negotiating"]

BookingUpdateExt(req, currentBooking, transaction) ==
  (IF Get(req.metadata, "payment_type", "") = "booking_fee"
     THEN [bookingFeePaid |-> TRUE, bookingFeeReference |-> req.reference,
           bookingFeePaidAt |-> Stamp, negotiationUnlocked |-> TRUE,
           negotiationUnlockedAt |-> Stamp, negotiation |-> [status |-> "ready"]]
   ELSE IF Get(req.metadata, "payment_type", "") = "escrow"
     THEN [escrowPaid |-> TRUE, escrowAmount |-> FromKobo(req.amount),
           escrowReference |-> req.reference, escrowPaidAt |-> Stamp,
           escrowStatus |-> "held"]
   ELSE <<>>)
  @@ [lastUpdated |-> Stamp,
      status |-> IF Get(req.metadata, "payment_type", "") = "booking_fee"
                 THEN "negotiating" ELSE "confirmed"]
  @@ currentBooking

\* The statements of the try block from `const event = req.body` on.
handleWebhookExtBody(db, req) ==
  IF req.reference = 0 THEN Result(db, 400)
  ELSE IF ~Exists(db.tx[req.reference]) THEN Result(db, 404)
  ELSE
    LET transaction == db.tx[req.reference]
        bookingId == Get(req.metadata, "booking_id", Get(transaction, "bookingId", ""))
        updateData == WebhookCommon(req, transaction)
        fee == Get(req.metadata, "payment_type", "") = "booking_fee"
    IN CASE req.event = "charge.success" ->
              LET db1 == [db EXCEPT !.tx[req.reference] = Update(@,
                            [status |-> "success", completedAt |-> Stamp,
                             webhookReceived |-> TRUE,
                             metadata |-> MergedMetadata(transaction, req)]
                            @@ updateData)]
                  currentBooking == db.bk[bookingId]
                  bookingUpdate == BookingUpdateExt(req, currentBooking, transaction)
                  pushed == IF fee THEN Push(currentBooking,
                                             ActivityEntryWebhook(req, currentBooking))
                            ELSE currentBooking
              IN IF bookingId # ""
                   THEN Result([db1 EXCEPT
                                  !.bk[bookingId] = Update(pushed, bookingUpdate),
                                  !.tb[bookingId] = IF fee THEN Update(@, bookingUpdate)
                                                    ELSE @], 200)
                 ELSE Result(db1, 200)
         [] req.event = "charge.failed" ->
              Result([db EXCEPT !.tx[req.reference] = Update(@,
                        [status |-> "failed", failedAt |-> Stamp,
                         failureReason |-> IF req.gateway_response # ""
                                           THEN req.gateway_response
                                           ELSE "Unknown error",
                         metadata |-> MergedMetadata(transaction, req)]
                        @@ updateData)], 200)
         [] req.event = "transfer.success" ->
              Result([db EXCEPT !.tx[req.reference] = Update(@,
                        [transferStatus |-> "success", transferCompletedAt |-> Stamp]
                        @@ updateData)], 200)
         [] req.event = "transfer.failed" ->
              Result([db EXCEPT !.tx[req.reference] = Update(@,
                        [transferStatus |-> "failed", transferFailedAt |-> Stamp,
                         transferFailureReason |-> IF req.gateway_response # ""
                                                   THEN req.gateway_response
                                                   ELSE "Unknown error"]
                        @@ updateData)], 200)
         [] req.event \in SubscriptionEvents ->
              Result([db EXCEPT !.tx[req.reference] = Update(@,
                        [subscriptionStatus |-> SubscriptionStatus(req.event),
                         lastSubscriptionEvent |-> Stamp]
                        @@ updateData)], 200)
         [] OTHER ->
              Result([db EXCEPT !.tx[req.reference] = Update(@,
                        [notes |-> "Unhandled event type"] @@ updateData)], 200)

\* Inside the try block, `event` and `reference` name the block's own const
\* bindings, which are declared further down (`const event = req.body`,
\* `const { reference, ... } = data`). Until those lines run the bindings are
\* uninitialised, and reading one throws a ReferenceError.
TryBlockBindingsInitialised == FALSE

handleWebhookExt(db, secret, req) ==
  IF ~verifyWebhookSignature(secret, req.sig)
    THEN \* logger.webhook.failed(event, ...) comes before the 401 response
         IF TryBlockBindingsInitialised THEN Result(db, 401) ELSE Result(db, 500)
  ELSE \* logger.webhook.verified(event, reference) comes before the body
       IF TryBlockBindingsInitialised THEN handleWebhookExtBody(db, req)
       ELSE Result(db, 500)

\* -------------------------------------------- extended controller: cancel
\* The handler without its refusal of a completed payment.
cancelPaymentUnchecked(db, ref) ==
  LET transaction == db.tx[ref]
  IN IF ~Exists(transaction) THEN Result(db, 404)
     ELSE IF Get(transaction, "status", "") = "cancelled" THEN Result(db, 400)
     ELSE LET db1 == [db EXCEPT !.tx[ref] = Update(@,
                        [status |-> "cancelled", cancelledAt |-> Stamp,
                         cancelReason |-> "User requested cancellation"])]
          IN IF "bookingId" \in DOMAIN transaction
               THEN Result([db1 EXCEPT !.bk[transaction.bookingId] = Update(@,
                              [lastUpdated |-> Stamp, status |-> "cancelled",
                               cancelReason |-> "Payment cancelled"])], 200)
             ELSE Result(db1, 200)

cancelPayment(db, ref) ==
  LET transaction == db.tx[ref]
  IN IF ~Exists(transaction) THEN Result(db, 404)
     ELSE IF Get(transaction, "status", "") = "success" THEN Result(db, 400)
     ELSE IF Get(transaction, "status", "") = "cancelled" THEN Result(db, 400)
     ELSE LET db1 == [db EXCEPT !.tx[ref] = Update(@,
                        [status |-> "cancelled", cancelledAt |-> Stamp,
                         cancelReason |-> "User requested cancellation"])]
          IN IF "bookingId" \in DOMAIN transaction
               THEN Result([db1 EXCEPT !.bk[transaction.bookingId] = Update(@,
                              [lastUpdated |-> Stamp, status |-> "cancelled",
                               cancelReason |-> "Payment cancelled"])], 200)
             ELSE Result(db1, 200)

\* --------------------------------------------------------- phone numbers
\* A phone number is the sequence of its characters.
StartsWith(s, p) == Len(s) >= Len(p) /\ SubSeq(s, 1, Len(p)) = p

IsSpace(c) == c = " "

\* phone.replace(/\s+/g, '')
StripSpaces(s) == SelectSeq(s, LAMBDA c : ~IsSpace(c))

Digits == {"0", "1", "2", "3", "4", "5", "6", "7", "8", "9"}

Prefix254 == <<"2", "5", "4">>

\* FormatPhone without its replace(/\s+/g, '').
FormatPhoneKeepSpaces(phone) ==
  LET f == phone
  IN IF StartsWith(f, <<"0">>) THEN Prefix254 \o Tail(f)
     ELSE IF StartsWith(f, <<"+">> \o Prefix254) THEN Tail(f)
     ELSE IF ~StartsWith(f, Prefix254) THEN Prefix254 \o f
     ELSE f

FormatPhone(phone) ==
  LET f == StripSpaces(phone)
  IN IF StartsWith(f, <<"0">>) THEN Prefix254 \o Tail(f)
     ELSE IF StartsWith(f, <<"+">> \o Prefix254) THEN Tail(f)
     ELSE IF ~StartsWith(f, Prefix254) THEN Prefix254 \o f
     ELSE f

\* /^254\d{9}$/
IsCanonicalPhone(f) ==
  /\ Len(f) = 12
  /\ StartsWith(f, Prefix254)
  /\ \A i \in 1..Len(f) : f[i] \in Digits

\* ------------------------------------------------ two-step M-Pesa charge
\* Paystack's test number and the e-mail the handler substitutes in test mode.
TestPhone == <<"2", "5", "4", "7", "0", "8", "3", "7", "4", "1", "7", "6">>
TestEmail == "test@example.com"

\* body: [phone, amount, email, bookingId, metadata]; isTestMode: the secret
\* key starts with sk_test_; safeAmount: the amount charged (in test mode one
\* of testAmounts picked at random, else body.amount); gwInit and gwCharge:
\* the gateway's answers to /transaction/initialize and /charge.
processMpesaPayment(db, isTestMode, initReference, chargeReference, body, safeAmount, gwInit, gwCharge) ==
  IF body.phone = <<>> \/ body.amount = 0 \/ body.email = "" \/ body.bookingId = ""
    THEN Result(db, 400)
  ELSE IF ~isTestMode /\ ~IsCanonicalPhone(FormatPhone(body.phone)) THEN Result(db, 400)
  ELSE IF gwInit = "error" THEN Result(db, 500)
  ELSE IF gwInit = "rejected" THEN Result(db, 400)
  ELSE IF isTestMode
    THEN Result([db EXCEPT !.tx[initReference] =
                   [reference |-> initReference, bookingId |-> body.bookingId,
                    email |-> TestEmail, phone |-> TestPhone,
                    amount |-> safeAmount, status |-> "pending",
                    paymentMethod |-> "mpesa", checkoutUrl |-> "checkout",
                    createdAt |-> Stamp]
                   @@ StoredMetadata(body.metadata)], 200)
  ELSE IF gwCharge = "error" THEN Result(db, 500)
  ELSE Result([db EXCEPT !.tx[chargeReference] =
                 [reference |-> chargeReference, initReference |-> initReference,
                  bookingId |-> body.bookingId, email |-> body.email,
                  phone |-> FormatPhone(body.phone), amount |-> body.amount,
                  status |-> IF gwCharge = "ok" THEN "pending" ELSE "failed",
                  paymentMethod |-> "mpesa", createdAt |-> Stamp,
                  chargeResponse |-> gwCharge]
                 @@ StoredMetadata(body.metadata)],
              IF gwCharge = "ok" THEN 200 ELSE 400)

\* ------------------------------------ extended controller: validate-phone
\* formattedPhone.replace(/\D/g, '')
StripNonDigits(s) == SelectSeq(s, LAMBDA c : c \in Digits)

\* The answer of POST /api/payments/validate-phone: the status code and, on
\* 200, data.formattedPhone (<<>> otherwise).
PhoneAnswer(code, formatted) == [code |-> code, formatted |-> formatted]

validateMpesaNumber(phone) ==
  IF phone = <<>> THEN PhoneAnswer(400, <<>>)
  ELSE LET d == StripNonDigits(StripSpaces(phone))
           f == IF StartsWith(d, <<"0">>) THEN Prefix254 \o Tail(d)
                ELSE IF StartsWith(d, <<"+">> \o Prefix254) THEN Tail(d)
                ELSE IF StartsWith(d, Prefix254) THEN d
                ELSE IF Len(d) = 9 THEN Prefix254 \o d
                ELSE <<>>
       IN IF f = <<>> THEN PhoneAnswer(400, <<>>)
          ELSE IF ~IsCanonicalPhone(f) THEN PhoneAnswer(400, <<>>)
          ELSE IF ~(StartsWith(f, Prefix254 \o <<"7">>) \/ StartsWith(f, Prefix254 \o <<"1">>))
            THEN PhoneAnswer(400, <<>>)
          ELSE PhoneAnswer(200, f)

\* ---------------------------------- production controller: validate-phone
\* schemas.phoneValidation: /^(0|254|\+254)?7\d{8}$/
PhoneSchemaAccepts(phone) ==
  \E p \in {<<>>, <<"0">>, Prefix254, <<"+">> \o Prefix254} :
    /\ StartsWith(phone, p \o <<"7">>)
    /\ Len(phone) = Len(p) + 9
    /\ \A i \in (Len(p) + 1)..Len(phone) : phone[i] \in Digits

\* ProductionPaymentController.validatePhone: always 200, with data.formatted
\* and data.isValid = /^2547\d{8}$/.test(formatted).
validatePhone(phone) ==
  [code |-> 200, formatted |-> FormatPhone(phone),
   isValid |-> /\ IsCanonicalPhone(FormatPhone(phone))
               /\ StartsWith(FormatPhone(phone), Prefix254 \o <<"7">>)]

\* ------------------------------------ extended controller: direct charge
\* body: [phone, amount, email, bookingId, metadata]; an absent field is
\* <<>>, 0 or "" (all falsy).
DirectBodyValid(body) ==
  /\ body.phone # <<>> /\ body.amount # 0 /\ body.email # "" /\ body.bookingId # ""
  /\ IsCanonicalPhone(FormatPhone(body.phone))

processMpesaPaymentDirect(db, reference, body, gwAns) ==
  IF body.phone = <<>> \/ body.amount = 0 \/ body.email = "" \/ body.bookingId = ""
    THEN Result(db, 400)
  ELSE IF ~IsCanonicalPhone(FormatPhone(body.phone)) THEN Result(db, 400)
  ELSE IF gwAns = "error" THEN Result(db, 500)
  ELSE Result([db EXCEPT !.tx[reference] =
                 [reference |-> reference, bookingId |-> body.bookingId,
                  email |-> body.email, phone |-> <<"+">> \o FormatPhone(body.phone),
                  amount |-> body.amount, status |-> "pending",
                  paymentMethod |-> "mpesa", createdAt |-> Stamp]
                 @@ StoredMetadata(body.metadata)], 200)

\* --------------------------------------------- extended controller: retry
RetryBody(transaction, reference, phone) ==
  [phone |-> IF phone # <<>> THEN phone ELSE Get(transaction, "phone", <<>>),
   email |-> Get(transaction, "email", ""),
   amount |-> Get(transaction, "amount", 0),
   bookingId |-> Get(transaction, "bookingId", ""),
   metadata |-> [original_reference |-> reference, is_retry |-> TRUE]
                @@ Get(transaction, "metadata", <<>>)]

\* The retry_ references are a namespace of their own (no handler keys a store
\* or a gateway call by one): the n-th is written -n.
RetryReference(n) == 0 - n

\* retryReference is the retry_ reference the handler generates; newReference
\* the mpesa_ reference processMpesaPaymentDirect generates for its charge.
\* The answer the client gets is the first one written on res.
\* The handler without its check of the transaction's status.
retryMpesaPaymentUnchecked(db, reference, phone, retryReference, newReference, gwAns) ==
  LET transaction == db.tx[reference]
  IN IF ~Exists(transaction) THEN Result(db, 404)
     ELSE LET db1 == [db EXCEPT !.tx[reference] = Update(@,
                        [status |-> "retrying", retryReference |-> retryReference,
                         retryCount |-> Get(transaction, "retryCount", 0) + 1,
                         lastRetryAt |-> Stamp])]
          IN processMpesaPaymentDirect(db1, newReference,
                                       RetryBody(transaction, reference, phone), gwAns)

retryMpesaPayment(db, reference, phone, retryReference, newReference, gwAns) ==
  LET transaction == db.tx[reference]
  IN IF ~Exists(transaction) THEN Result(db, 404)
     ELSE IF Get(transaction, "status", "") # "failed" THEN Result(db, 400)
     ELSE LET db1 == [db EXCEPT !.tx[reference] = Update(@,
                        [status |-> "retrying", retryReference |-> retryReference,
                         retryCount |-> Get(transaction, "retryCount", 0) + 1,
                         lastRetryAt |-> Stamp])]
          IN processMpesaPaymentDirect(db1, newReference,
                                       RetryBody(transaction, reference, phone), gwAns)

\* ------------------------------------------------- production controller
\* A deferred store write: [kind, ref, data].
Task(kind, ref, data) == [kind |-> kind, ref |-> ref, data |-> data]

ProdMetadata(bookingId, meta) ==
  meta @@ [booking_id |-> bookingId, payment_method |-> "mpesa",
           payment_type |-> Get(meta, "payment_type", "booking_fee")]

ConfigError(cfg) ==
  \/ cfg.isProduction /\ ~cfg.keyLive
  \/ ~cfg.isProduction /\ cfg.keyLive

\* The reference stored and returned: chargeReference || initReference
ProdReference(initReference, chargeReference) == chargeReference

\* Answers [code, tasks]: the response and the writes it dispatches.
initializeMpesaPayment(cfg, initReference, chargeReference, amount, bookingId, meta, gwInit, gwCharge) ==
  IF ConfigError(cfg) THEN [code |-> 500, tasks |-> <<>>]
  ELSE IF gwInit = "error" THEN [code |-> 500, tasks |-> <<>>]
  ELSE IF gwInit = "rejected" THEN [code |-> 400, tasks |-> <<>>]
  ELSE IF cfg.isProduction /\ gwCharge = "error" THEN [code |-> 500, tasks |-> <<>>]
  ELSE [code |-> 200,
        tasks |-> << Task("set", ProdReference(initReference, chargeReference),
                      [reference |-> ProdReference(initReference, chargeReference),
                       initReference |-> initReference, bookingId |-> bookingId,
                       email |-> "a@b.com", amount |-> amount, status |-> "pending",
                       paymentMethod |-> "mpesa", createdAt |-> Stamp,
                       metadata |-> ProdMetadata(bookingId, meta),
                       environment |-> IF cfg.isProduction THEN "production"
                                       ELSE "test"]) >>]

verifyPaymentProd(ref, g) ==
  [code |-> 200, tasks |-> << Task("update", ref, VerifyUpdate(g)) >>]

\* The deferred write itself, when the store accepts it.
ApplyTask(db, t) ==
  IF t.kind = "set" THEN [db EXCEPT !.tx[t.ref] = t.data]
  ELSE [db EXCEPT !.tx[t.ref] = Update(@, t.data)]

\* The setImmediate callback around a deferred write: the write in a try block,
\* whose catch logs an ERROR entry carrying the reference. Answers the stores
\* and the references of the ERROR entries written.
deferredWriteSilent(db, t, ok) ==
  [db |-> IF ok THEN ApplyTask(db, t) ELSE db, errors |-> {}]

deferredWrite(db, t, ok) ==
  [db |-> IF ok THEN ApplyTask(db, t) ELSE db,
   errors |-> IF ok THEN {} ELSE {t.ref}]

\* ================================================================ actions
GatewayAnswers == {"ok", "rejected", "error"}

PhoneLocal == <<"0", "7", "1", "2", "3", "4", "5", "6", "7", "8">>
PhoneBad == <<"1", "2">>

NoRequest == [op |-> "none", code |-> 0]

Handled(op, ref, code) == [op |-> op, code |-> code]

SetDB(db) ==
  /\ ledger' = db.tx
  /\ bookings' = db.bk
  /\ tuition' = db.tb

UnchangedDB == UNCHANGED <<ledger, bookings, tuition>>

Init ==
  /\ variant \in Variants
  /\ config \in [secretSet : BOOLEAN, isProduction : BOOLEAN, keyLive : BOOLEAN]
  /\ variant = "prod" => ~config.secretSet
  /\ variant # "prod" => ~config.isProduction /\ ~config.keyLive
  /\ ledger = [r \in RefIds |-> Absent]
  /\ bookings = [b \in BookingIds |-> Absent]
  /\ tuition = [b \in BookingIds |-> Absent]
  /\ gw = [r \in RefIds |-> Absent]
  /\ nrefs = 0
  /\ tasks = <<>>
  /\ errlog = {}
  /\ last = NoRequest
  /\ inflight = [c \in Clients |-> <<>>]

\* ---- the booking subsystem (external): creates bookings, records completion
BookingStore == IF variant = "basic" THEN "bk" ELSE "tb"

ExternalCreateBooking(b) ==
  /\ variant # "prod"
  /\ IF BookingStore = "bk"
       THEN /\ ~Exists(bookings[b])
            /\ bookings' = [bookings EXCEPT ![b] = [status |-> "pending"]]
            /\ UNCHANGED tuition
       ELSE /\ ~Exists(tuition[b])
            /\ tuition' = [tuition EXCEPT ![b] = [status |-> "pending"]]
            /\ UNCHANGED bookings
  /\ UNCHANGED <<variant, inflight, config, ledger, gw, nrefs, tasks, errlog, last>>

ExternalComplete(b, party) ==
  /\ variant # "prod"
  /\ IF BookingStore = "bk"
       THEN /\ Exists(bookings[b]) /\ party \notin DOMAIN bookings[b]
            /\ bookings' = [bookings EXCEPT ![b] = Update(@, party :> Stamp)]
            /\ UNCHANGED tuition
       ELSE /\ Exists(tuition[b]) /\ party \notin DOMAIN tuition[b]
            /\ tuition' = [tuition EXCEPT ![b] = Update(@, party :> Stamp)]
            /\ UNCHANGED bookings
  /\ UNCHANGED <<variant, inflight, config, ledger, gw, nrefs, tasks, errlog, last>>

\* ---- the gateway (external): the payer completes or fails an attempt
GatewayOutcome(ref, outcome) ==
  /\ Exists(gw[ref])
  /\ gw[ref].status # "success"
  /\ gw' = [gw EXCEPT ![ref].status = outcome,
                       ![ref].emitted = @ \cup {IF outcome = "success"
                                                THEN "charge.success"
                                                ELSE "charge.failed"}]
  /\ UNCHANGED <<variant, inflight, config, ledger, bookings, tuition, nrefs, tasks, errlog, last>>

\* ---- POST /api/payments/initialize
InitializePayment(amount, b, hasMeta, meta, gwAns) ==
  /\ variant \in {"basic", "ext"}
  /\ nrefs < MaxAttempts
  /\ LET ref == FirstRef(nrefs + 1)
         r == IF variant = "basic"
              THEN initializePaymentBasic(DB, ref, amount, b, hasMeta, meta, gwAns)
              ELSE initializePaymentExt(DB, ref, amount, b, hasMeta, meta, gwAns)
         accepted == amount # 0 /\ gwAns = "ok"
     IN /\ SetDB(r.db)
        /\ gw' = IF accepted
                 THEN [gw EXCEPT ![ref] = GatewayRecord(Kobo(amount),
                                            GatewayMetadata(b, hasMeta, meta))]
                 ELSE gw
        /\ nrefs' = IF accepted THEN nrefs + 1 ELSE nrefs
        /\ last' = Handled("initialize", ref, r.code)
  /\ UNCHANGED <<variant, inflight, config, tasks, errlog>>

\* ---- GET /api/payments/verify/:reference
FeeLogFull(ref) ==
  /\ variant = "ext"
  /\ Exists(gw[ref])
  /\ Len(Get(tuition[gw[ref].metadata["booking_id"]], "activityLog", <<>>)) >= MaxLog

VerifyPayment(ref, net) ==
  /\ ~FeeLogFull(ref)
  /\ IF net = "error" \/ ~Exists(gw[ref])
       THEN /\ UnchangedDB
            /\ UNCHANGED tasks
            /\ last' = Handled("verify", ref,
                               IF variant = "prod" /\ net = "ok" THEN 404 ELSE 500)
     ELSE IF variant = "prod"
       THEN /\ Len(tasks) < MaxTasks
            /\ UnchangedDB
            /\ tasks' = tasks \o verifyPaymentProd(ref, gw[ref]).tasks
            /\ last' = Handled("verify", ref, verifyPaymentProd(ref, gw[ref]).code)
     ELSE LET r == IF variant = "basic" THEN verifyPaymentBasic(DB, ref, gw[ref])
                   ELSE verifyPaymentExt(DB, ref, gw[ref])
          IN /\ SetDB(r.db)
             /\ UNCHANGED tasks
             /\ last' = Handled("verify", ref, r.code)
  /\ UNCHANGED <<variant, inflight, config, gw, nrefs, errlog>>

\* ---- POST /api/payments/webhook
\* The basic controller reads the secret from the process environment (the
\* secret argument); the extended one imports PAYSTACK_WEBHOOK_SECRET from
\* config/paystack, whose exports hold no such name.
ImportedWebhookSecret == FALSE

handleWebhook(db, secret, req) ==
  IF variant = "basic" THEN handleWebhookBasic(db, secret, req)
  ELSE handleWebhookExt(db, ImportedWebhookSecret, req)

\* What the gateway sends for an event of a reference it holds.
GatewayWebhook(ref, event, gateway_response) ==
  [sig |-> "valid", event |-> event, reference |-> ref,
   metadata |-> gw[ref].metadata, amount |-> gw[ref].amount,
   gateway_response |-> gateway_response]

HandleWebhook(req) ==
  /\ variant \in {"basic", "ext"}
  /\ SetDB(handleWebhook(DB, config.secretSet, req).db)
  /\ last' = Handled("webhook", req.reference,
                     handleWebhook(DB, config.secretSet, req).code)
  /\ UNCHANGED <<variant, inflight, config, gw, nrefs, tasks, errlog>>

DeliverWebhook(ref, event, gateway_response) ==
  /\ Exists(gw[ref])
  /\ event \in gw[ref].emitted
  /\ HandleWebhook(GatewayWebhook(ref, event, gateway_response))

\* Any other sender: a payload of its choosing, and a header that is not the
\* body's HMAC.
ForgedRequest(sig, event, ref, b, meta, amount) ==
  [sig |-> sig, event |-> event, reference |-> ref,
   metadata |-> meta @@ ("booking_id" :> b), amount |-> Kobo(amount),
   gateway_response |-> ""]

ForgedWebhook(sig, event, ref, b, meta, amount) ==
  /\ sig # "valid"
  /\ HandleWebhook(ForgedRequest(sig, event, ref, b, meta, amount))

\* ---- POST /api/payments/release-escrow
ReleaseEscrow(b) ==
  /\ variant \in {"basic", "ext"}
  /\ SetDB(releaseEscrow(DB, BookingStore, b).db)
  /\ last' = Handled("release", 0, releaseEscrow(DB, BookingStore, b).code)
  /\ UNCHANGED <<variant, inflight, config, gw, nrefs, tasks, errlog>>

\* ---- POST /api/payments/cancel/:reference
CancelPayment(ref) ==
  /\ variant = "ext"
  /\ SetDB(cancelPayment(DB, ref).db)
  /\ last' = Handled("cancel", ref, cancelPayment(DB, ref).code)
  /\ UNCHANGED <<variant, inflight, config, gw, nrefs, tasks, errlog>>

\* ---- POST /api/payments/mpesa/direct
ChargeMetadata(body) ==
  body.metadata @@ [booking_id |-> body.bookingId, payment_method |-> "mpesa"]

MpesaDirect(b, phone, meta, amount, gwAns) ==
  /\ variant = "ext"
  /\ nrefs < MaxAttempts
  /\ LET ref == FirstRef(nrefs + 1)
         body == [phone |-> phone, amount |-> amount, email |-> "a@b.com",
                  bookingId |-> b, metadata |-> meta]
         r == processMpesaPaymentDirect(DB, ref, body, gwAns)
         accepted == DirectBodyValid(body) /\ gwAns = "ok"
     IN /\ SetDB(r.db)
        /\ gw' = IF accepted
                 THEN [gw EXCEPT ![ref] = GatewayRecord(Kobo(amount), ChargeMetadata(body))]
                 ELSE gw
        /\ nrefs' = IF r.code = 200 THEN nrefs + 1 ELSE nrefs
        /\ last' = Handled("direct", ref, r.code)
  /\ UNCHANGED <<variant, inflight, config, tasks, errlog>>

\* ---- POST /api/payments/retry/:reference
\* The mpesa_ reference of the retried charge: the attempt's second reference
\* while that one is unused, else the next attempt's.
SecondFree(ref) ==
  /\ ref % 2 = 1
  /\ ~Exists(ledger[ref + 1]) /\ ~Exists(gw[ref + 1])

RetryMpesaPayment(ref, phone, gwAns) ==
  /\ variant = "ext"
  /\ Get(ledger[ref], "retryCount", 0) < MaxRetry
  /\ LET fresh == IF nrefs < MaxAttempts THEN nrefs + 1 ELSE nrefs
         newReference == IF SecondFree(ref) THEN ref + 1 ELSE FirstRef(fresh)
         retryReference == RetryReference(Get(ledger[ref], "retryCount", 0) + 1)
         body == RetryBody(ledger[ref], ref, phone)
         r == retryMpesaPayment(DB, ref, phone, retryReference, newReference, gwAns)
         started == Get(ledger[ref], "status", "") = "failed"
         charged == started /\ DirectBodyValid(body)
         accepted == charged /\ gwAns = "ok"
     IN /\ charged => (SecondFree(ref) \/ nrefs < MaxAttempts)
        /\ SetDB(r.db)
        /\ gw' = IF accepted
                 THEN [gw EXCEPT ![newReference] =
                         GatewayRecord(Kobo(body.amount), ChargeMetadata(body))]
                 ELSE gw
        /\ nrefs' = IF charged /\ gwAns # "error" /\ ~SecondFree(ref) THEN fresh ELSE nrefs
        /\ last' = Handled("retry", ref, r.code)
  /\ UNCHANGED <<variant, inflight, config, tasks, errlog>>

\* ---- POST /api/payments/mpesa (production controller)
InitializeMpesaPayment(amount, b, meta, gwInit, gwCharge) ==
  /\ variant = "prod"
  /\ nrefs < MaxAttempts
  /\ Len(tasks) < MaxTasks
  /\ LET initReference == FirstRef(nrefs + 1)
         chargeReference == SecondRef(nrefs + 1)
         r == initializeMpesaPayment(config, initReference, chargeReference, amount,
                                     b, meta, gwInit, gwCharge)
         initOk == ~ConfigError(config) /\ gwInit = "ok"
         chargeOk == initOk /\ config.isProduction /\ gwCharge = "ok"
     IN /\ tasks' = tasks \o r.tasks
        /\ gw' = [x \in RefIds |->
                   IF x = initReference /\ initOk
                     THEN GatewayRecord(Kobo(amount), ProdMetadata(b, meta))
                   ELSE IF x = chargeReference /\ chargeOk
                     THEN GatewayRecord(Kobo(amount), ProdMetadata(b, meta))
                   ELSE gw[x]]
        /\ nrefs' = IF initOk THEN nrefs + 1 ELSE nrefs
        /\ last' = Handled("mpesa", ProdReference(initReference, chargeReference), r.code)
  /\ UnchangedDB
  /\ UNCHANGED <<variant, inflight, config, errlog>>

\* ---- a deferred write runs: the store takes it, or the write fails and the
\* catch of the setImmediate callback logs an ERROR entry
RunTask(i, ok) ==
  /\ i \in 1..Len(tasks)
  /\ SetDB(deferredWrite(DB, tasks[i], ok).db)
  /\ errlog' = errlog \cup deferredWrite(DB, tasks[i], ok).errors
  /\ tasks' = SubSeq(tasks, 1, i - 1) \o SubSeq(tasks, i + 1, Len(tasks))
  /\ UNCHANGED <<variant, inflight, config, gw, nrefs, last>>

\* The steps around the webhook endpoint: a booking appears, a payment is
\* initialized, the payer's attempt ends, a webhook arrives.
WebhookSteps ==
  \/ \E b \in BookingIds : ExternalCreateBooking(b)
  \/ \E ref \in RefIds, outcome \in {"failed", "success"} : GatewayOutcome(ref, outcome)
  \/ \E amount \in Amounts \cup {0}, b \in BookingIds, hasMeta \in BOOLEAN,
        meta \in MetaObjects, gwAns \in GatewayAnswers :
       InitializePayment(amount, b, hasMeta, meta, gwAns)
  \/ \E ref \in RefIds, event \in {"charge.success", "charge.failed"},
        gateway_response \in {"", "Declined"} :
       DeliverWebhook(ref, event, gateway_response)
  \/ \E sig \in Signatures, event \in {"charge.success", "charge.failed"},
        ref \in RefIds, b \in BookingIds, meta \in MetaObjects, amount \in Amounts :
       ForgedWebhook(sig, event, ref, b, meta, amount)

\* The routes of the basic controller, with the environment's steps.
BasicSteps ==
  \/ WebhookSteps
  \/ \E b \in BookingIds, party \in {"parentCompletedAt", "teacherCompletedAt"} :
       ExternalComplete(b, party)
  \/ \E ref \in RefIds, net \in {"ok", "error"} : VerifyPayment(ref, net)
  \/ \E b \in BookingIds : ReleaseEscrow(b)

\* The routes the extended controller adds.
ExtSteps ==
  \/ \E ref \in RefIds : CancelPayment(ref)
  \/ \E b \in BookingIds, phone \in {<<>>, PhoneLocal, PhoneBad}, meta \in MetaObjects,
        amount \in Amounts, gwAns \in GatewayAnswers :
       MpesaDirect(b, phone, meta, amount, gwAns)
  \/ \E ref \in RefIds, phone \in {<<>>, PhoneLocal}, gwAns \in GatewayAnswers :
       RetryMpesaPayment(ref, phone, gwAns)

\* What the production controller adds: its charge route and its deferred writes.
ProdSteps ==
  \/ \E amount \in Amounts, b \in BookingIds, meta \in MetaObjects,
        gwInit \in GatewayAnswers, gwCharge \in GatewayAnswers :
       InitializeMpesaPayment(amount, b, meta, gwInit, gwCharge)
  \/ \E i \in 1..MaxTasks, ok \in BOOLEAN : RunTask(i, ok)

Next == BasicSteps \/ ExtSteps \/ ProdSteps

Spec == Init /\ [][Next]_vars

\* A deployment of the basic controller (server.js with the basic routes).
InitBasic == Init /\ variant = "basic"

SpecBasic == InitBasic /\ [][BasicSteps]_vars

\* A deployment of the extended controller (routes/paymentRoutes.js).
InitExt == Init /\ variant = "ext"

SpecExt == InitExt /\ [][BasicSteps \/ ExtSteps]_vars

\* A deployment with a webhook endpoint, followed along the webhook's steps.
InitWebhook == Init /\ variant \in {"basic", "ext"}

SpecWebhook == InitWebhook /\ [][WebhookSteps]_vars

\* ================================================================ claims
WebhookEvents ==
  {"charge.success", "charge.failed", "transfer.success", "transfer.failed",
   "invoice.update"} \cup SubscriptionEvents

GatewayResponses == {"", "Declined"}

Status(rec) == Get(rec, "status", "")

PaymentTypeOf(ref) == Get(gw[ref].metadata, "payment_type", "")

BookingOf(ref) == gw[ref].metadata["booking_id"]

\* The webhook the gateway sends for the outcome it holds for ref, as handled
\* by the deployment's handler in the current state.
Delivered(ref, event, gateway_response) ==
  handleWebhook(DB, config.secretSet, GatewayWebhook(ref, event, gateway_response))

\* A verify poll of ref in the current state, once its writes have been applied.
Polled(db, ref) ==
  IF variant = "basic" THEN verifyPaymentBasic(db, ref, gw[ref]).db
  ELSE IF variant = "ext" THEN verifyPaymentExt(db, ref, gw[ref]).db
  ELSE ApplyTask(db, verifyPaymentProd(ref, gw[ref]).tasks[1])

\* ---------------------------------------------------------------- C1
\* C1: a webhook request whose signature header is absent or is not the HMAC
\* of the body under the shared secret, or any request when no secret is
\* configured, makes handleWebhook write nothing to payment-transactions,
\* bookings or tuition-bookings, whatever its payload.
C1_UnverifiedWebhookWritesNothing ==
  variant \in {"basic", "ext"} =>
    \A secret \in BOOLEAN, sig \in Signatures, event \in WebhookEvents,
       ref \in RefIds \cup {0}, b \in BookingIds, meta \in MetaObjects,
       amount \in Amounts \cup {0} :
      (~secret \/ sig # "valid") =>
        handleWebhook(DB, secret, ForgedRequest(sig, event, ref, b, meta, amount)).db = DB

\* An unverified webhook has been handled while a pending ledger record and a
\* booking it could have changed were stored.
C1_Witness ==
  /\ last.op = "webhook" /\ last.code = 401
  /\ config.secretSet
  /\ \E r \in RefIds : Status(ledger[r]) = "pending"
  /\ \E b \in BookingIds : Exists(bookings[b])

\* ---------------------------------------------------------------- C2
\* C2: once a ledger record's status is success, no later step sets it to
\* failed or cancelled.
C2_SuccessNeverOverwritten ==
  [][\A r \in RefIds :
       Status(ledger[r]) = "success" => Status(ledger'[r]) \notin {"failed", "cancelled"}]_vars

\* ---------------------------------------------------------------- C3
\* C3: for a transaction in status success that a charge.success webhook has
\* already been processed for, delivering that webhook again leaves every
\* booking record (fields and activity-log entries) as it is.
C3_DuplicateSuccessWebhookNoOp ==
  \A r \in RefIds, gr \in GatewayResponses :
    ( /\ variant \in {"basic", "ext"}
      /\ config.secretSet
      /\ Exists(gw[r]) /\ "charge.success" \in gw[r].emitted
      /\ Status(ledger[r]) = "success"
      /\ Get(ledger[r], "webhookReceived", FALSE) )
    => /\ Delivered(r, "charge.success", gr).db.bk = bookings
       /\ Delivered(r, "charge.success", gr).db.tb = tuition

\* ---------------------------------------------------------------- C4
\* C4: with the pending ledger record that initialize created for a
\* booking_fee payment of a booking, a correctly signed charge.success webhook
\* for that reference ends with ledger status success and the booking in
\* status negotiating with bookingFeePaid true.
C4_FeeSuccessWebhook ==
  \A r \in RefIds, gr \in GatewayResponses :
    ( /\ variant \in {"basic", "ext"}
      /\ config.secretSet
      /\ Exists(gw[r]) /\ "charge.success" \in gw[r].emitted
      /\ PaymentTypeOf(r) = "booking_fee"
      /\ Status(ledger[r]) = "pending"
      /\ Get(ledger[r], "amount", 0) = FromKobo(gw[r].amount) )
    => LET d == Delivered(r, "charge.success", gr).db
       IN /\ Status(d.tx[r]) = "success"
          /\ Status(d.bk[BookingOf(r)]) = "negotiating"
          /\ Get(d.bk[BookingOf(r)], "bookingFeePaid", FALSE)

\* ---------------------------------------------------------------- C5
EscrowStatusOf(rec) == Get(rec, "escrowStatus", "none")

EscrowStepAllowed(old, new) ==
  /\ ~(EscrowStatusOf(old) = "released" /\ EscrowStatusOf(new) = "held")
  /\ ~(EscrowStatusOf(old) = "none" /\ EscrowStatusOf(new) = "released")

\* C5: in every step, a booking's escrowStatus does not go from released back
\* to held, nor from none (or absent) directly to released.
C5_EscrowStatusOrder ==
  [][\A b \in BookingIds :
       /\ EscrowStepAllowed(bookings[b], bookings'[b])
       /\ EscrowStepAllowed(tuition[b], tuition'[b])]_vars

\* ---------------------------------------------------------------- C6
\* What the claim compares of a ledger record and of a booking record.
LedgerOutcome(rec) ==
  <<Status(rec), Get(rec, "failureReason", "none"), "failedAt" \in DOMAIN rec>>

BookingOutcome(rec) ==
  <<Status(rec), Get(rec, "bookingFeePaid", FALSE), Get(rec, "escrowPaid", FALSE),
    EscrowStatusOf(rec)>>

OutcomeOf(db, ref) ==
  <<LedgerOutcome(db.tx[ref]), BookingOutcome(db.bk[BookingOf(ref)]),
    BookingOutcome(db.tb[BookingOf(ref)])>>

\* C6: for the outcome the gateway holds for a reference (success or failed),
\* a verify poll leaves the ledger record's status and failure fields and the
\* booking's status, bookingFeePaid, escrowPaid and escrowStatus equal to what
\* the webhook delivery of that outcome leaves.
C6_VerifyMatchesWebhook ==
  \A r \in RefIds, gr \in GatewayResponses :
    ( /\ variant \in {"basic", "ext"}
      /\ config.secretSet
      /\ Exists(gw[r]) /\ gw[r].status \in {"success", "failed"}
      /\ Exists(ledger[r]) )
    => OutcomeOf(Polled(DB, r), r)
         = OutcomeOf(Delivered(r, IF gw[r].status = "success" THEN "charge.success"
                                  ELSE "charge.failed", gr).db, r)

\* ---------------------------------------------------------------- C7
\* C7: two consecutive verify polls of a reference that get the same gateway
\* result leave the ledger and the booking records, activity log included, as
\* one poll leaves them.
C7_VerifyIdempotent ==
  \A r \in RefIds :
    Exists(gw[r]) => Polled(Polled(DB, r), r) = Polled(DB, r)

\* ---------------------------------------------------------------- C8
EscrowRecorded(rec, ref) ==
  /\ Get(rec, "escrowPaid", FALSE)
  /\ Get(rec, "escrowAmount", 0) = FromKobo(gw[ref].amount)
  /\ Get(rec, "escrowStatus", "") = "held"
  /\ Get(rec, "escrowReference", 0) = ref
  /\ "escrowPaidAt" \in DOMAIN rec

\* The booking record the deployment's handlers keep the escrow state on.
CoreBooking(db, b) == IF BookingStore = "bk" THEN db.bk[b] ELSE db.tb[b]

\* C8: a success event of an escrow payment sets escrowPaid, escrowAmount
\* (gateway amount / 100), escrowStatus held and the escrow reference and time
\* on the booking and leaves the booking's status as it was, by webhook and by
\* verify poll.
C8_EscrowSuccessEffect ==
  \A r \in RefIds, gr \in GatewayResponses :
    ( /\ variant \in {"basic", "ext"}
      /\ config.secretSet
      /\ Exists(gw[r]) /\ gw[r].status = "success"
      /\ PaymentTypeOf(r) = "escrow"
      /\ Exists(ledger[r]) )
    => /\ EscrowRecorded(CoreBooking(Polled(DB, r), BookingOf(r)), r)
       /\ Status(CoreBooking(Polled(DB, r), BookingOf(r)))
            = Status(CoreBooking(DB, BookingOf(r)))
       /\ EscrowRecorded(Delivered(r, "charge.success", gr).db.bk[BookingOf(r)], r)
       /\ Status(Delivered(r, "charge.success", gr).db.bk[BookingOf(r)])
            = Status(bookings[BookingOf(r)])

\* ---------------------------------------------------------------- C9
\* C9: a success event whose payment_type is neither booking_fee nor escrow
\* (or is absent) marks the ledger record success and writes no booking
\* record, by webhook and by verify poll.
C9_UnrecognizedTypeNoBookingWrite ==
  \A r \in RefIds, gr \in GatewayResponses :
    ( /\ variant \in {"basic", "ext"}
      /\ config.secretSet
      /\ Exists(gw[r]) /\ gw[r].status = "success"
      /\ PaymentTypeOf(r) \notin PaymentTypes
      /\ Exists(ledger[r]) )
    => /\ Status(Polled(DB, r).tx[r]) = "success"
       /\ Polled(DB, r).bk = bookings /\ Polled(DB, r).tb = tuition
       /\ Status(Delivered(r, "charge.success", gr).db.tx[r]) = "success"
       /\ Delivered(r, "charge.success", gr).db.bk = bookings
       /\ Delivered(r, "charge.success", gr).db.tb = tuition

\* ---------------------------------------------------------------- C10
\* C10: a correctly signed charge.failed webhook for an existing reference
\* sets ledger status failed, failureReason to the gateway response text (or
\* "Unknown error" when there is none) and a failure time, and leaves every
\* booking record as it is.
C10_FailedWebhookEffect ==
  \A r \in RefIds, gr \in GatewayResponses :
    ( /\ variant \in {"basic", "ext"}
      /\ config.secretSet
      /\ Exists(gw[r]) /\ "charge.failed" \in gw[r].emitted
      /\ Exists(ledger[r]) )
    => LET d == Delivered(r, "charge.failed", gr).db
       IN /\ Status(d.tx[r]) = "failed"
          /\ Get(d.tx[r], "failureReason", "") = (IF gr # "" THEN gr ELSE "Unknown error")
          /\ "failedAt" \in DOMAIN d.tx[r]
          /\ d.bk = bookings /\ d.tb = tuition

\* ---------------------------------------------------------------- C11
\* The events that are neither charge.success nor charge.failed.
OtherEvents == WebhookEvents \ {"charge.success", "charge.failed"}

\* The amounts (in minor units) such an event may carry: none, the charge's,
\* or the event's own (a transfer's).
EventAmounts == {0, Kobo(Shillings(300))} \cup {Kobo(a) : a \in Amounts}

\* A correctly signed event of the gateway about ref, carrying amount.
GatewayEvent(ref, event, amountInKobo, gateway_response) ==
  [GatewayWebhook(ref, event, gateway_response) EXCEPT !.amount = amountInKobo]

KeptFields(rec) ==
  <<Status(rec), Get(rec, "amount", 0), Get(rec, "metadata", <<>>)>>

\* C11: a correctly signed transfer.*, subscription.* or unrecognized event
\* for an existing reference leaves the ledger record's status, amount and
\* metadata and every booking record as they are.
C11_OtherEventsChangeNothing ==
  \A r \in RefIds, event \in OtherEvents, m \in EventAmounts, gr \in GatewayResponses :
    ( /\ variant \in {"basic", "ext"}
      /\ config.secretSet
      /\ Exists(gw[r])
      /\ "amount" \in DOMAIN ledger[r] )
    => LET d == handleWebhook(DB, config.secretSet, GatewayEvent(r, event, m, gr)).db
       IN /\ KeptFields(d.tx[r]) = KeptFields(ledger[r])
          /\ d.bk = bookings /\ d.tb = tuition

\* ---------------------------------------------------------------- C12
\* What the retry and cancel routes work on: direct charges, their outcomes,
\* verify polls, cancellations and retries.
RetrySteps ==
  \/ \E ref \in RefIds, outcome \in {"failed", "success"} : GatewayOutcome(ref, outcome)
  \/ \E ref \in RefIds, net \in {"ok", "error"} : VerifyPayment(ref, net)
  \/ \E ref \in RefIds : CancelPayment(ref)
  \/ \E b \in BookingIds, phone \in {<<>>, PhoneLocal, PhoneBad}, meta \in MetaObjects,
        amount \in Amounts, gwAns \in GatewayAnswers :
       MpesaDirect(b, phone, meta, amount, gwAns)
  \/ \E ref \in RefIds, phone \in {<<>>, PhoneLocal}, gwAns \in GatewayAnswers :
       RetryMpesaPayment(ref, phone, gwAns)

SpecRetry == InitExt /\ [][RetrySteps]_vars

\* C12: in every state, a retry of a reference whose ledger status is not
\* failed is answered 400, and a retry of an unknown reference 404, whatever
\* the gateway would answer; it leaves every ledger and booking record as it
\* is and creates none.
C12_RetryRejectedUnlessFailed ==
  \A ref \in RefIds, newReference \in RefIds, phone \in {<<>>, PhoneLocal},
     gwAns \in GatewayAnswers :
    Status(ledger[ref]) # "failed" =>
      retryMpesaPayment(DB, ref, phone, RetryReference(1), newReference, gwAns)
        = Result(DB, IF Exists(ledger[ref]) THEN 400 ELSE 404)

\* A retry has just been refused for a transaction that is in status success.
C12_Witness ==
  /\ last.op = "retry" /\ last.code = 400
  /\ \E r \in RefIds : Status(ledger[r]) = "success"


\* ---------------------------------------------------------------- C13
\* The retry the handler makes of a failed transaction whose charge the
\* gateway accepts, with newReference unused so far.
RetryAccepted(ref, phone, newReference) ==
  retryMpesaPayment(DB, ref, phone,
                    RetryReference(Get(ledger[ref], "retryCount", 0) + 1),
                    newReference, "ok")

\* C13: after an accepted retry of a failed transaction R, R is in status
\* retrying and the ledger holds, under the reference stored as
\* R.retryReference, a pending record with R's amount and bookingId whose
\* metadata.original_reference is R.
C13_RetryRecordUnderRetryReference ==
  \A ref \in RefIds, phone \in {<<>>, PhoneLocal}, newReference \in RefIds :
    ( /\ variant = "ext"
      /\ Status(ledger[ref]) = "failed"
      /\ DirectBodyValid(RetryBody(ledger[ref], ref, phone))
      /\ ~Exists(ledger[newReference]) )
    => LET d == RetryAccepted(ref, phone, newReference).db
           R == d.tx[ref]
       IN /\ Status(R) = "retrying"
          /\ \E x \in RefIds :
               /\ x = R.retryReference
               /\ Status(d.tx[x]) = "pending"
               /\ d.tx[x].amount = ledger[ref].amount
               /\ d.tx[x].bookingId = ledger[ref].bookingId
               /\ d.tx[x].metadata["original_reference"] = ref


\* ---------------------------------------------------------------- C14
\* What the cancel route works on: bookings, direct charges, their outcomes,
\* verify polls and cancellations.
CancelSteps ==
  \/ \E b \in BookingIds : ExternalCreateBooking(b)
  \/ \E ref \in RefIds, outcome \in {"failed", "success"} : GatewayOutcome(ref, outcome)
  \/ \E ref \in RefIds, net \in {"ok", "error"} : VerifyPayment(ref, net)
  \/ \E ref \in RefIds : CancelPayment(ref)
  \/ \E b \in BookingIds, phone \in {<<>>, PhoneLocal, PhoneBad}, meta \in MetaObjects,
        amount \in Amounts, gwAns \in GatewayAnswers :
       MpesaDirect(b, phone, meta, amount, gwAns)

SpecCancel == InitExt /\ [][CancelSteps]_vars

\* C14: in every state, cancelling a transaction whose ledger status is
\* success or cancelled is answered 400 and leaves the ledger and every
\* booking record as they are.
C14_CancelRejectedWhenSettled ==
  \A ref \in RefIds :
    Status(ledger[ref]) \in {"success", "cancelled"}
    => cancelPayment(DB, ref) = Result(DB, 400)

\* A cancel has just been refused for a transaction in status success.
C14_Witness ==
  /\ last.op = "cancel" /\ last.code = 400
  /\ \E r \in RefIds : Status(ledger[r]) = "success"


\* ---------------------------------------------------------------- C15
\* The records held under a booking id, in bookings and in tuition-bookings.
BookingRecords(db, b) == {rec \in {db.bk[b], db.tb[b]} : Exists(rec)}

\* C15: cancelling a transaction whose ledger status is pending, failed or
\* retrying sets the ledger status to cancelled with a cancellation time and
\* reason, and the booking held under the record's bookingId has status
\* cancelled afterwards.
C15_CancelEffect ==
  \A ref \in RefIds :
    ( /\ variant = "ext"
      /\ Status(ledger[ref]) \in {"pending", "failed", "retrying"}
      /\ "bookingId" \in DOMAIN ledger[ref]
      /\ BookingRecords(DB, ledger[ref].bookingId) # {} )
    => LET d == cancelPayment(DB, ref).db
       IN /\ Status(d.tx[ref]) = "cancelled"
          /\ {"cancelledAt", "cancelReason"} \subseteq DOMAIN d.tx[ref]
          /\ \A rec \in BookingRecords(d, ledger[ref].bookingId) :
               Status(rec) = "cancelled"


\* ---------------------------------------------------------------- C16
\* C16: cancelled is terminal: a ledger record whose status is cancelled keeps
\* that status through every later step (webhook, verify poll, retry, cancel).
C16_CancelledIsTerminal ==
  [][\A r \in RefIds :
       Status(ledger[r]) = "cancelled" => Status(ledger'[r]) = "cancelled"]_vars


\* ---------------------------------------------------------------- C17
\* The states of the transaction state machine.
LedgerStatuses == {"pending", "success", "failed", "cancelled", "retrying"}

\* C17: in every reachable state every ledger record's status is one of
\* pending, success, failed, cancelled, retrying.
C17_LedgerStatusInRange ==
  \A r \in RefIds : Exists(ledger[r]) => Status(ledger[r]) \in LedgerStatuses


\* ---------------------------------------------------------------- C18
\* What the release route works on: bookings and their completion marks,
\* payments, their outcomes and verify polls, and releases.
ReleaseSteps ==
  \/ \E b \in BookingIds : ExternalCreateBooking(b)
  \/ \E b \in BookingIds, party \in {"parentCompletedAt", "teacherCompletedAt"} :
       ExternalComplete(b, party)
  \/ \E amount \in Amounts, b \in BookingIds, meta \in MetaObjects, gwAns \in GatewayAnswers :
       InitializePayment(amount, b, TRUE, meta, gwAns)
  \/ \E ref \in RefIds : GatewayOutcome(ref, "success")
  \/ \E ref \in RefIds : VerifyPayment(ref, "ok")
  \/ \E b \in BookingIds : ReleaseEscrow(b)

SpecRelease == InitWebhook /\ [][ReleaseSteps]_vars

\* Both completion marks are on the booking record.
BothCompleted(booking) ==
  {"parentCompletedAt", "teacherCompletedAt"} \subseteq DOMAIN booking

\* C18: in every state, a release for an existing booking that lacks
\* parentCompletedAt or teacherCompletedAt is answered 400 and leaves the
\* booking record, and every other record, as it is.
C18_ReleaseNeedsBothCompletions ==
  \A b \in BookingIds :
    (Exists(CoreBooking(DB, b)) /\ ~BothCompleted(CoreBooking(DB, b)))
    => releaseEscrow(DB, BookingStore, b) = Result(DB, 400)

\* A release has just been refused for a booking whose escrow is held and
\* that only one party has marked completed.
C18_Witness ==
  /\ last.op = "release" /\ last.code = 400
  /\ \E b \in BookingIds :
       /\ Get(CoreBooking(DB, b), "escrowStatus", "") = "held"
       /\ "parentCompletedAt" \in DOMAIN CoreBooking(DB, b)
       /\ "teacherCompletedAt" \notin DOMAIN CoreBooking(DB, b)


\* ---------------------------------------------------------------- C19
\* C19: in every state, two releases in sequence for a booking that carries
\* both completion marks and is not yet released: the first is answered 200
\* and sets escrowStatus released and status completed; the second is answered
\* 400 and writes nothing.
C19_SecondReleaseRejected ==
  \A b \in BookingIds :
    ( /\ Exists(CoreBooking(DB, b))
      /\ BothCompleted(CoreBooking(DB, b))
      /\ Get(CoreBooking(DB, b), "escrowStatus", "") # "released" )
    => LET first == releaseEscrow(DB, BookingStore, b)
           second == releaseEscrow(first.db, BookingStore, b)
       IN /\ first.code = 200
          /\ Get(CoreBooking(first.db, b), "escrowStatus", "") = "released"
          /\ Status(CoreBooking(first.db, b)) = "completed"
          /\ second = Result(first.db, 400)

\* A release has just been refused for a booking that carries both completion
\* marks and is already released.
C19_Witness ==
  /\ last.op = "release" /\ last.code = 400
  /\ \E b \in BookingIds :
       /\ BothCompleted(CoreBooking(DB, b))
       /\ Get(CoreBooking(DB, b), "escrowStatus", "") = "released"


\* ---------------------------------------------------------------- C20
\* C20: only the booking subsystem creates booking records: when neither
\* bookings nor tuition-bookings holds a record under a booking id, no step
\* of the payment core (webhook, verify poll, cancel, release) leaves one.
C20_NoBookingCreated ==
  [][\A b \in BookingIds :
       ( /\ BookingRecords(DB, b) = {}
         /\ Exists(bookings'[b]) \/ Exists(tuition'[b]) )
       => ExternalCreateBooking(b)]_vars


\* ---------------------------------------------------------------- C21
\* The booking fields the completion flow of the booking subsystem writes,
\* and the times it may write there.
OtherFields == {"parentCompletedAt", "teacherCompletedAt"}

LaterStamp == "t2"

\* A write of the booking subsystem to one field of a booking record.
OtherSubsystemWrite(db, store, b, field, value) ==
  [db EXCEPT ![store][b] = Update(@, field :> value)]

\* C21: a verify poll of a successful payment reads the booking, the booking
\* subsystem then writes a field outside the core's subset, and the poll's
\* booking write follows: the subsystem's value is still on the booking.
C21_OtherWriterNotClobbered ==
  \A r \in RefIds, field \in OtherFields, value \in {Stamp, LaterStamp} :
    ( /\ variant = "ext"
      /\ Exists(gw[r]) /\ gw[r].status = "success"
      /\ Exists(tuition[BookingOf(r)]) )
    => LET b == BookingOf(r)
           currentBooking == tuition[b]
           written == OtherSubsystemWrite(DB, "tb", b, field, value)
           d == verifyPaymentExtAfterRead(written, r, gw[r], currentBooking).db
       IN d.tb[b][field] = value


\* ---------------------------------------------------------------- C22
\* The success handlers and what surrounds them: bookings, payments and their
\* outcomes, verify polls, success webhooks, cancellations and releases.
LogSteps ==
  \/ ReleaseSteps
  \/ \E ref \in RefIds, gateway_response \in GatewayResponses :
       DeliverWebhook(ref, "charge.success", gateway_response)
  \/ \E ref \in RefIds : CancelPayment(ref)

SpecLog == InitWebhook /\ [][LogSteps]_vars

Log(rec) == Get(rec, "activityLog", <<>>)

IsPrefix(s, t) == Len(s) <= Len(t) /\ SubSeq(t, 1, Len(s)) = s

\* The entries both stores hold now are still there, in order, in d.
LogsKept(d) ==
  \A b \in BookingIds :
    /\ IsPrefix(Log(bookings[b]), Log(d.bk[b]))
    /\ IsPrefix(Log(tuition[b]), Log(d.tb[b]))

InitProd == Init /\ variant = "prod"

\* The routes that dispatch deferred ledger writes, and the writes' runs.
DeferredSteps ==
  \/ \E amount \in Amounts, b \in BookingIds, gwInit \in GatewayAnswers,
        gwCharge \in GatewayAnswers :
       InitializeMpesaPayment(amount, b, <<>>, gwInit, gwCharge)
  \/ \E i \in 1..MaxTasks, ok \in BOOLEAN : RunTask(i, ok)
  \/ \E ref \in RefIds : VerifyPayment(ref, "ok")

SpecDeferred == InitProd /\ [][DeferredSteps]_vars

\* C23: every step in which a deferred ledger write (the set dispatched by
\* initializeMpesaPayment, the update dispatched by the production
\* verifyPayment) fails leaves an ERROR entry naming the write's reference in
\* the log, and no entry of the log is ever removed.
C23_FailedDeferredWriteLogged ==
  [][/\ \A i \in 1..MaxTasks :
          (i <= Len(tasks) /\ RunTask(i, FALSE)) => tasks[i].ref \in errlog'
     /\ errlog \subseteq errlog']_vars

\* Both kinds of deferred write have failed and are in the log: the set of an
\* initialize under the charge reference and the update of a verify poll
\* under the reference polled.
C23_Witness ==
  /\ \E k \in 1..MaxAttempts : {FirstRef(k), SecondRef(k)} \subseteq errlog
  /\ tasks = <<>>


\* ---------------------------------------------------------------- C24
\* C24: with the webhook secret configured verifyWebhookSignature ends with a
\* boolean, without throwing, whatever the signature header (absent, of
\* another length, mismatching, matching); with no secret configured the call
\* throws.
C24_ThrowsOnlyOnMissingSecret ==
  \A sig \in Signatures :
    IF config.secretSet
      THEN verifyWebhookSignatureOutcome(config.secretSet, sig) \in {"true", "false"}
      ELSE verifyWebhookSignatureOutcome(config.secretSet, sig) = "throws"


\* ---------------------------------------------------------------- C25
\* C25: handleWebhook answers 401 to every webhook whose signature is absent
\* or fails verification, and 200 to the gateway's correctly signed webhook
\* for a reference the ledger holds, in the basic and the extended controller.
C25_WebhookAnswers ==
  variant \in {"basic", "ext"} =>
    /\ \A sig \in Signatures \ {"valid"}, event \in WebhookEvents, ref \in RefIds,
          b \in BookingIds, meta \in MetaObjects, amount \in Amounts :
         handleWebhook(DB, config.secretSet,
                       ForgedRequest(sig, event, ref, b, meta, amount)).code = 401
    /\ \A ref \in RefIds, event \in WebhookEvents, gr \in GatewayResponses :
         (config.secretSet /\ Exists(gw[ref]) /\ Exists(ledger[ref]))
         => Delivered(ref, event, gr).code = 200


\* ---------------------------------------------------------------- C26
\* Display amounts with at most two decimals: 500.00, 123.45, 1.99 and 0.01.
DecimalAmounts == {Shillings(500), Shillings(123) + 450, Shillings(1) + 990, 10}

\* The charge the gateway holds, once paid, for an initialize of amount a.
PaidCharge(a, b, meta) ==
  [GatewayRecord(Kobo(a), GatewayMetadata(b, TRUE, meta)) EXCEPT !.status = "success"]

\* The charge.success event the gateway sends for the charge g of ref.
PaidEvent(ref, g) ==
  [sig |-> "valid", event |-> "charge.success", reference |-> ref,
   metadata |-> g.metadata, amount |-> g.amount, gateway_response |-> ""]

\* The stores after a's escrow payment was initialized under ref and then
\* reported paid, by webhook and by verify poll.
AfterReport(ref, a, b) ==
  LET meta == ("payment_type" :> "escrow")
      g == PaidCharge(a, b, meta)
      r == IF variant = "basic"
           THEN initializePaymentBasic(DB, ref, a, b, TRUE, meta, "ok")
           ELSE initializePaymentExt(DB, ref, a, b, TRUE, meta, "ok")
  IN [stored |-> r.db,
      reported |-> {handleWebhook(r.db, config.secretSet, PaidEvent(ref, g)).db,
                    IF variant = "basic" THEN verifyPaymentBasic(r.db, ref, g).db
                    ELSE verifyPaymentExt(r.db, ref, g).db}]

\* C26: amounts are stored in display units only: for every amount a > 0 of at
\* most two decimals, initialize sends round(a * 100) to the gateway and stores
\* a on the ledger, and after the webhook or the verify poll carrying the
\* gateway amount m the ledger amount and the booking's escrowAmount are
\* m / 100, which for m = round(a * 100) is a again.
C26_AmountsInDisplayUnits ==
  (variant \in {"basic", "ext"} /\ config.secretSet) =>
    \A a \in DecimalAmounts, ref \in RefIds, b \in BookingIds :
      (ledger[ref] = <<>> /\ BookingRecords(DB, b) # {}) =>
        LET m == PaidCharge(a, b, <<>>).amount
        IN /\ FromKobo(m) = a
           /\ AfterReport(ref, a, b).stored.tx[ref].amount = a
           /\ \A d \in AfterReport(ref, a, b).reported :
                /\ Get(d.tx[ref], "amount", 0) = FromKobo(m)
                /\ \E rec \in BookingRecords(d, b) :
                     Get(rec, "escrowAmount", 0) = FromKobo(m)


\* ---------------------------------------------------------------- C27
\* Nine-digit subscriber numbers of the 07XX and 01XX series.
Subscribers ==
  {<<"7", "1", "2", "3", "4", "5", "6", "7", "8">>,
   <<"1", "1", "0", "9", "8", "7", "6", "5", "4">>}

\* The ways a client writes the country part: 0s, 254s, +254s.
PhoneForms == {<<"0">>, Prefix254, <<"+">> \o Prefix254}

\* p with a blank put after its k-th character (k = -1: no blank).
Spaced(p, k) ==
  IF k = -1 THEN p ELSE SubSeq(p, 1, k) \o <<" ">> \o SubSeq(p, k + 1, Len(p))

Writings(s) ==
  UNION {{Spaced(f \o s, k) : k \in -1..Len(f \o s)} : f \in PhoneForms}

PhoneInputs ==
  UNION {Writings(s) : s \in Subscribers} \cup Subscribers \cup {<<>>, PhoneBad}

\* ---- POST /api/payments/validate-phone (the production route validates the
\* body against schemas.phoneValidation before the controller runs)
ValidatePhone(phone) ==
  /\ variant \in {"ext", "prod"}
  /\ last' = [op |-> "validate-phone", phone |-> phone]
             @@ (IF variant = "ext" THEN validateMpesaNumber(phone)
                 ELSE IF ~PhoneSchemaAccepts(phone) THEN PhoneAnswer(400, <<>>)
                 ELSE validatePhone(phone))
  /\ UNCHANGED <<variant, inflight, config, ledger, bookings, tuition, gw, nrefs, tasks, errlog>>

PhoneSteps ==
  \/ \E phone \in PhoneInputs : ValidatePhone(phone)
  \/ \E b \in BookingIds, phone \in PhoneInputs, amount \in Amounts :
       MpesaDirect(b, phone, <<>>, amount, "ok")

InitPhone == Init /\ variant \in {"ext", "prod"}

SpecPhone == InitPhone /\ [][PhoneSteps]_vars

\* What processMpesaPaymentDirect sends to the gateway as the phone of a
\* request it accepts (<<>> when it answers 400).
DirectPhone(phone) ==
  IF IsCanonicalPhone(FormatPhone(phone)) THEN FormatPhone(phone) ELSE <<>>

\* C27: for every nine-digit subscriber number s of a recognised series, the
\* writings 0s, 254s and +254s, with or without a blank inside, all normalise
\* to 254s, and 254s normalises to itself, in validateMpesaNumber, in
\* processMpesaPaymentDirect and in validatePhone alike; so does the answer
\* of the validate-phone endpoint to such a writing.
C27_SameCanonicalPhone ==
  \A s \in Subscribers :
    LET canon == Prefix254 \o s
    IN /\ \A x \in Writings(s) :
            /\ validateMpesaNumber(x) = PhoneAnswer(200, canon)
            /\ DirectPhone(x) = canon
            /\ validatePhone(x).formatted = canon
            /\ (last.op = "validate-phone" /\ last.phone = x /\ last.code = 200)
                 => last.formatted = canon
       /\ validateMpesaNumber(validateMpesaNumber(canon).formatted).formatted = canon
       /\ DirectPhone(DirectPhone(canon)) = canon
       /\ validatePhone(validatePhone(canon).formatted).formatted = canon

\* The extended endpoint has answered 200 with 254s to a +254s written with a
\* blank, and a direct charge of such a writing is on the ledger under 254s.
C27_Witness ==
  /\ variant = "ext"
  /\ last.op = "validate-phone"
  /\ \E s \in Subscribers, k \in 1..12 :
       /\ last.phone = Spaced(<<"+">> \o Prefix254 \o s, k)
       /\ last.code = 200
       /\ last.formatted = Prefix254 \o s
       /\ \E r \in RefIds : Exists(ledger[r]) /\ ledger[r].phone = <<"+">> \o Prefix254 \o s


\* ---------------------------------------------------------------- C28
\* The request bodies of an M-Pesa charge for booking b.
ChargeBodies(b) ==
  {[phone |-> PhoneLocal, amount |-> amount, email |-> "a@b.com",
    bookingId |-> b, metadata |-> meta] : amount \in Amounts, meta \in MetaObjects}

\* db holds no pending ledger record under any of refs.
NonePending(db, refs) == \A r \in refs : Status(db.tx[r]) # "pending"

\* C28: a ledger record is created in status pending only for an attempt the
\* gateway accepted: when the gateway answers the initialize or the charge
\* request with a non-success status, or the call fails, initializePayment,
\* processMpesaPayment and processMpesaPaymentDirect leave no pending ledger
\* record for that attempt.
C28_NoPendingRecordWhenRefused ==
  \A ref \in RefIds, b \in BookingIds, refusal \in {"rejected", "error"} :
    (ref % 2 = 1 /\ ~Exists(ledger[ref]) /\ ~Exists(ledger[ref + 1])) =>
      /\ \A amount \in Amounts, meta \in MetaObjects :
           /\ NonePending(initializePaymentBasic(DB, ref, amount, b, TRUE, meta, refusal).db, {ref})
           /\ NonePending(initializePaymentExt(DB, ref, amount, b, TRUE, meta, refusal).db, {ref})
      /\ \A body \in ChargeBodies(b), isTestMode \in BOOLEAN, gwAns \in GatewayAnswers :
           /\ NonePending(processMpesaPayment(DB, isTestMode, ref, ref + 1, body, body.amount,
                                              refusal, gwAns).db, {ref, ref + 1})
           /\ NonePending(processMpesaPayment(DB, FALSE, ref, ref + 1, body, body.amount,
                                              "ok", refusal).db, {ref, ref + 1})
      /\ \A body \in ChargeBodies(b) :
           NonePending(processMpesaPaymentDirect(DB, ref, body, refusal).db, {ref})


\* ---------------------------------------------------------------- C29
\* ------------------------------------------------------ failure responses
\* What a gateway call throws: message is error.message, code is error.code
\* ("" when unset), response is error.response (<<>> when the gateway never
\* answered), holding the HTTP status and the gateway body's message.
ThrownErrors ==
  {[message |-> m, code |-> c, response |-> r] :
     m \in {"Network Error", "Request failed with status code 400"},
     c \in {"", "ETIMEDOUT"},
     r \in {<<>>, [status |-> 400, message |-> "Invalid amount"],
            [status |-> 401, message |-> "Invalid key"]}}

\* Texts that come from inside: error messages and gateway bodies.
InternalTexts ==
  {e.message : e \in ThrownErrors}
  \cup {e.response.message : e \in {x \in ThrownErrors : x.response # <<>>}}

\* error.response?.data?.message || error.message
ErrorMessage(error) ==
  IF error.response # <<>> THEN error.response.message ELSE error.message

\* details: error.response?.data, left out of the JSON when undefined
ErrorDetails(error) ==
  IF error.response # <<>> THEN ("details" :> error.response) ELSE <<>>

\* The catch of initializePayment (both controllers).
initializePaymentCatch(error) ==
  [success |-> FALSE, message |-> "Internal server error", error |-> ErrorMessage(error)]

\* The catch of processMpesaPaymentDirect and of processMpesaPayment.
processMpesaPaymentDirectCatch(error) ==
  [success |-> FALSE, message |-> "Internal server error", error |-> ErrorMessage(error)]
  @@ ErrorDetails(error)

\* process.env.NODE_ENV of the deployment.
NodeEnv(cfg) == IF cfg.isProduction THEN "production" ELSE "development"

\* middleware/errorHandler.js for an error a handler let through: the
\* ETIMEDOUT branch, else the default response.
errorHandler(nodeEnv, err) ==
  IF err.code = "ETIMEDOUT"
    THEN [code |-> 503,
          body |-> [success |-> FALSE, message |-> "Service temporarily unavailable",
                    requestId |-> "id"]]
  ELSE [code |-> 500,
        body |-> [success |-> FALSE,
                  message |-> IF nodeEnv = "production" THEN "Internal server error"
                              ELSE err.message,
                  requestId |-> "id"]
                 @@ (IF nodeEnv = "development"
                     THEN [error |-> err.message, stack |-> "stack"] ELSE <<>>)]

\* The catch of ProductionPaymentController.initializeMpesaPayment.
initializeMpesaPaymentCatch(nodeEnv, error) ==
  IF error.response # <<>> /\ error.response.status = 401
    THEN [code |-> 500,
          body |-> [success |-> FALSE, message |-> "Payment service configuration error",
                    requestId |-> "id"]]
  ELSE IF error.response # <<>> /\ error.response.status = 429
    THEN [code |-> 429,
          body |-> [success |-> FALSE,
                    message |-> "Payment service temporarily busy, please try again",
                    requestId |-> "id"]]
  ELSE IF error.code = "ETIMEDOUT"
    THEN [code |-> 504,
          body |-> [success |-> FALSE,
                    message |-> "Payment service timeout, please try again",
                    requestId |-> "id"]]
  ELSE errorHandler(nodeEnv, error)

\* initializeMpesaPayment when /transaction/initialize answers status false.
initializeMpesaPaymentRejected(gatewayMessage) ==
  [code |-> 400,
   body |-> [success |-> FALSE, message |-> "Failed to initialize payment",
             error |-> gatewayMessage, requestId |-> "id"]]

Failed(op, answer) == [op |-> op, code |-> answer.code, body |-> answer.body]

\* ---- POST /api/payments/initialize, the gateway call throwing
InitializePaymentFails(error) ==
  /\ variant \in {"basic", "ext"}
  /\ last' = Failed("initialize", [code |-> 500, body |-> initializePaymentCatch(error)])
  /\ UNCHANGED <<variant, inflight, config, ledger, bookings, tuition, gw, nrefs, tasks, errlog>>

\* ---- POST /api/payments/mpesa/direct, the gateway call throwing
MpesaDirectFails(error) ==
  /\ variant = "ext"
  /\ last' = Failed("direct", [code |-> 500, body |-> processMpesaPaymentDirectCatch(error)])
  /\ UNCHANGED <<variant, inflight, config, ledger, bookings, tuition, gw, nrefs, tasks, errlog>>

\* ---- POST /api/payments/mpesa (production), the gateway refusing or throwing
InitializeMpesaPaymentFails(error) ==
  /\ variant = "prod"
  /\ ~ConfigError(config)
  /\ last' = Failed("mpesa", initializeMpesaPaymentCatch(NodeEnv(config), error))
  /\ UNCHANGED <<variant, inflight, config, ledger, bookings, tuition, gw, nrefs, tasks, errlog>>

InitializeMpesaPaymentRejected(gatewayMessage) ==
  /\ variant = "prod"
  /\ ~ConfigError(config)
  /\ last' = Failed("mpesa", initializeMpesaPaymentRejected(gatewayMessage))
  /\ UNCHANGED <<variant, inflight, config, ledger, bookings, tuition, gw, nrefs, tasks, errlog>>

FailureSteps ==
  \/ \E error \in ThrownErrors : InitializePaymentFails(error)
  \/ \E error \in ThrownErrors : MpesaDirectFails(error)
  \/ \E error \in ThrownErrors : InitializeMpesaPaymentFails(error)
  \/ \E gatewayMessage \in {"Invalid amount"} : InitializeMpesaPaymentRejected(gatewayMessage)

\* Every controller under every NODE_ENV.
InitAnyEnv ==
  /\ variant \in Variants
  /\ config \in [secretSet : BOOLEAN, isProduction : BOOLEAN, keyLive : BOOLEAN]
  /\ ledger = [r \in RefIds |-> Absent]
  /\ bookings = [b \in BookingIds |-> Absent]
  /\ tuition = [b \in BookingIds |-> Absent]
  /\ gw = [r \in RefIds |-> Absent]
  /\ nrefs = 0
  /\ tasks = <<>>
  /\ errlog = {}
  /\ last = NoRequest
  /\ inflight = [c \in Clients |-> <<>>]

SpecFailures == InitAnyEnv /\ [][FailureSteps]_vars

\* A failure response body is structured and carries nothing from inside.
Withheld(body) ==
  /\ body.success = FALSE
  /\ "message" \in DOMAIN body
  /\ body.message \notin InternalTexts
  /\ DOMAIN body \cap {"error", "details", "stack"} = {}

\* C29: with NODE_ENV = production every failure response is {success: false,
\* message} and holds no internal error detail (no underlying error message,
\* gateway error body or stack), on every handler's failure path.
C29_FailureDetailWithheld ==
  (config.isProduction /\ "body" \in DOMAIN last) => Withheld(last.body)


\* ---------------------------------------------------------------- C30
\* ------------------------------------------------------ middleware order
\* A path is the sequence of its segments; a route parameter is written as
\* its name.
ApiPayments == <<"api", "payments">>

Route(method, path, handler) == [method |-> method, path |-> path, handler |-> handler]

\* routes/paymentRoutes.js of the basic controller
BasicRoutes ==
  {Route("POST", <<"initialize">>, "initializePayment"),
   Route("GET", <<"verify", ":reference">>, "verifyPayment"),
   Route("POST", <<"mpesa">>, "processMpesaPayment"),
   Route("POST", <<"webhook">>, "handleWebhook"),
   Route("POST", <<"release-escrow">>, "releaseEscrow")}

\* routes/paymentRoutes.js of the extended controller
ExtRoutes ==
  BasicRoutes \cup
  {Route("POST", <<"mpesa", "direct">>, "processMpesaPaymentDirect"),
   Route("GET", <<"status", ":reference">>, "getPaymentStatus"),
   Route("POST", <<"retry", ":reference">>, "retryMpesaPayment"),
   Route("POST", <<"cancel", ":reference">>, "cancelPayment"),
   Route("GET", <<"history", ":userId">>, "getTransactionHistory"),
   Route("POST", <<"validate-phone">>, "validateMpesaNumber"),
   Route("GET", <<"negotiation-status", ":bookingId">>, "getNegotiationStatus")}

\* routes/productionPaymentRoutes.js
ProdRoutes ==
  {Route("POST", <<"mpesa">>, "initializeMpesaPayment"),
   Route("GET", <<"verify", ":reference">>, "verifyPayment"),
   Route("GET", <<"status", ":reference">>, "getPaymentStatus"),
   Route("POST", <<"validate-phone">>, "validatePhone")}

\* One app.use(prefix, [authenticateApiKey,] router); a router.use(
\* authenticateApiKey) at the head of the router is the same guard.
Mount(prefix, auth, routes) == [prefix |-> prefix, auth |-> auth, routes |-> routes]

\* The mounts under /api of the deployment's server, in the order of its
\* app.use calls (server.js for the basic and extended routers,
\* server-production.js for the production router).
Mounts ==
  IF variant = "prod" THEN << Mount(ApiPayments, TRUE, ProdRoutes) >>
  ELSE LET routes == IF variant = "basic" THEN BasicRoutes ELSE ExtRoutes
       IN << Mount(ApiPayments, TRUE, routes),
             Mount(ApiPayments \o <<"webhook">>, FALSE, routes),
             Mount(ApiPayments, TRUE, routes) >>

\* x-api-key relative to API_SECRET
ApiKeys == {"absent", "wrong", "valid"}

Answer(by, code) == [by |-> by, code |-> code]

\* authenticateApiKey: the answer it gives, or "next"
authenticateApiKey(key) ==
  IF key = "absent" THEN Answer("authenticateApiKey", 401)
  ELSE IF key # "valid" THEN Answer("authenticateApiKey", 403)
  ELSE Answer("next", 0)

\* Express runs the mounts in order: one whose prefix the path starts with runs
\* its guard, then the router on the rest of the path; a router without a
\* matching route passes the request on.
RECURSIVE Dispatch(_, _)
Dispatch(mounts, req) ==
  IF mounts = <<>> THEN Answer("notFound", 404)
  ELSE LET m == Head(mounts)
           rest == SubSeq(req.path, Len(m.prefix) + 1, Len(req.path))
           matching == {r \in m.routes : r.method = req.method /\ r.path = rest}
       IN IF ~StartsWith(req.path, m.prefix) THEN Dispatch(Tail(mounts), req)
          ELSE IF m.auth /\ authenticateApiKey(req.key).by # "next"
            THEN authenticateApiKey(req.key)
          ELSE IF matching # {}
            THEN Answer((CHOOSE r \in matching : TRUE).handler, 200)
          ELSE Dispatch(Tail(mounts), req)

\* The requests to the payment endpoints of any of the routers.
PaymentRequests ==
  {[method |-> r.method, path |-> ApiPayments \o r.path, key |-> key] :
     r \in ExtRoutes \cup ProdRoutes, key \in ApiKeys}

WebhookPath == ApiPayments \o <<"webhook">>

\* ---- a request to /api/payments/..., up to the handler that receives it
Request(req) ==
  /\ last' = [op |-> "request", req |-> req] @@ Dispatch(Mounts, req)
  /\ UNCHANGED <<variant, inflight, config, ledger, bookings, tuition, gw, nrefs, tasks, errlog>>

RequestSteps == \E req \in PaymentRequests : Request(req)

SpecRoutes == Init /\ [][RequestSteps]_vars

\* C30: in the server's middleware order a POST to /api/payments/webhook
\* without an x-api-key header reaches handleWebhook, and every other
\* /api/payments endpoint is answered by authenticateApiKey, its handler not
\* running, when the key is missing or wrong.
C30_WebhookExemptOthersGuarded ==
  last.op = "request" =>
    /\ (/\ variant \in {"basic", "ext"}
        /\ last.req.method = "POST" /\ last.req.path = WebhookPath
        /\ last.req.key = "absent")
         => last.by = "handleWebhook"
    /\ (last.req.path # WebhookPath /\ last.req.key # "valid")
         => last.by = "authenticateApiKey"


\* ---------------------------------------------------------------- C31
\* ------------------------------------------------- handlers in flight
\* A client's request is in flight from the handler's first await until its
\* answer.
InFlight(c) == Exists(inflight[c]) /\ ~inflight[c].answered

Answered(c, op, code) ==
  Exists(inflight[c]) /\ inflight[c].answered /\ inflight[c].op = op /\ inflight[c].code = code

NoHandlerInFlight == \A c \in Clients : ~InFlight(c)

\* ---- POST /api/payments/release-escrow, up to the read of the booking
ReleaseEscrowRead(c, b) ==
  /\ variant \in {"basic", "ext"}
  /\ ~InFlight(c)
  /\ inflight' = [inflight EXCEPT ![c] =
                    [op |-> "release", bookingId |-> b, answered |-> FALSE,
                     booking |-> DB[BookingStore][b]]]
  /\ UNCHANGED <<variant, config, ledger, bookings, tuition, gw, nrefs, tasks, errlog, last>>

\* ---- the rest of that handler: the checks of what it read, the update, the answer
ReleaseEscrowWrite(c) ==
  /\ InFlight(c)
  /\ inflight[c].op = "release"
  /\ LET r == releaseEscrowAfterRead(DB, BookingStore, inflight[c].bookingId,
                                     inflight[c].booking)
     IN /\ SetDB(r.db)
        /\ last' = Handled("release", 0, r.code)
        /\ inflight' = [inflight EXCEPT ![c] =
                          [op |-> "release", bookingId |-> inflight[c].bookingId,
                           answered |-> TRUE, code |-> r.code]]
  /\ UNCHANGED <<variant, config, gw, nrefs, tasks, errlog>>

ReleaseRaceSteps ==
  \/ \E b \in BookingIds : ExternalCreateBooking(b)
  \/ \E b \in BookingIds, party \in OtherFields : ExternalComplete(b, party)
  \/ \E c \in Clients, b \in BookingIds : ReleaseEscrowRead(c, b)
  \/ \E c \in Clients : ReleaseEscrowWrite(c)

SpecReleaseRace == InitWebhook /\ [][ReleaseRaceSteps]_vars

\* C31: of two concurrent releaseEscrow requests on the same booking (both
\* completions recorded, escrow not yet released), under every interleaving,
\* at most one is answered with success; the other is rejected as already
\* released.
C31_AtMostOneReleaseSucceeds ==
  \A b \in BookingIds :
    Cardinality({c \in Clients :
                   Answered(c, "release", 200) /\ inflight[c].bookingId = b}) <= 1


\* ---------------------------------------------------------------- C32
PaidSteps ==
  \/ DeferredSteps
  \/ \E ref \in RefIds, outcome \in {"success", "failed"} : GatewayOutcome(ref, outcome)

SpecPaid == InitProd /\ [][PaidSteps]_vars

\* The payment_type a ledger record carries.
LedgerPaymentType(rec) == Get(Get(rec, "metadata", <<>>), "payment_type", "")

\* Some record of booking b carries the mark.
BookingMarked(b, mark) == \E rec \in BookingRecords(DB, b) : Get(rec, mark, FALSE) = TRUE

\* C32: whenever no handler is in flight (and no deferred write is waiting),
\* every ledger record with status success and payment_type booking_fee has a
\* booking with bookingFeePaid = true, and every one with payment_type escrow
\* a booking with escrowPaid = true, on the verify path of every controller.
C32_PaidLedgerHasPaidBooking ==
  (NoHandlerInFlight /\ tasks = <<>>) =>
    \A r \in RefIds :
      (Status(ledger[r]) = "success" /\ "bookingId" \in DOMAIN ledger[r]) =>
        /\ LedgerPaymentType(ledger[r]) = "booking_fee"
             => BookingMarked(ledger[r].bookingId, "bookingFeePaid")
        /\ LedgerPaymentType(ledger[r]) = "escrow"
             => BookingMarked(ledger[r].bookingId, "escrowPaid")


\* ---------------------------------------------------------------- C33
\* const testAmounts = [100, ..., 1000]: what a test-mode charge may be for.
TestAmounts == {Shillings(100), Shillings(500)}

\* isTestMode: PAYSTACK_SECRET_KEY starts with sk_test_
IsTestMode(cfg) == ~cfg.keyLive

\* ---- POST /api/payments/mpesa (core controller), up to the await of its
\* ledger write: the input checks and the gateway calls. A request that ends
\* without a ledger write is answered here.
ProcessMpesaPaymentCharge(c, body, safeAmount, gwInit, gwCharge) ==
  /\ variant = "basic"
  /\ nrefs < MaxAttempts
  /\ ~InFlight(c)
  /\ IsTestMode(config) \/ safeAmount = body.amount
  /\ LET initReference == FirstRef(nrefs + 1)
         chargeReference == SecondRef(nrefs + 1)
         r == processMpesaPayment(DB, IsTestMode(config), initReference, chargeReference,
                                  body, safeAmount, gwInit, gwCharge)
         charged == r.db # DB /\ ~IsTestMode(config) /\ gwCharge = "ok"
         args == [initReference |-> initReference, chargeReference |-> chargeReference,
                  body |-> body, safeAmount |-> safeAmount, gwInit |-> gwInit,
                  gwCharge |-> gwCharge]
     IN /\ gw' = IF r.db = DB THEN gw
                 ELSE IF IsTestMode(config)
                   THEN [gw EXCEPT ![initReference] =
                           GatewayRecord(Kobo(safeAmount), ChargeMetadata(body))]
                 ELSE IF charged
                   THEN [gw EXCEPT ![chargeReference] =
                           GatewayRecord(Kobo(safeAmount), ChargeMetadata(body))]
                 ELSE gw
        /\ nrefs' = IF r.db = DB THEN nrefs ELSE nrefs + 1
        /\ inflight' = [inflight EXCEPT ![c] =
                          IF r.db = DB
                            THEN [op |-> "mpesa", answered |-> TRUE, code |-> r.code]
                          ELSE [op |-> "mpesa", answered |-> FALSE, args |-> args]]
        /\ last' = IF r.db = DB THEN Handled("mpesa", 0, r.code) ELSE last
  /\ UNCHANGED <<variant, config, ledger, bookings, tuition, tasks, errlog>>

\* ---- the rest of that handler: the ledger write and the answer
ProcessMpesaPaymentWrite(c) ==
  /\ InFlight(c)
  /\ inflight[c].op = "mpesa"
  /\ LET a == inflight[c].args
         r == processMpesaPayment(DB, IsTestMode(config), a.initReference,
                                  a.chargeReference, a.body, a.safeAmount, a.gwInit,
                                  a.gwCharge)
     IN /\ SetDB(r.db)
        /\ last' = Handled("mpesa", 0, r.code)
        /\ inflight' = [inflight EXCEPT ![c] =
                          [op |-> "mpesa", answered |-> TRUE, code |-> r.code]]
  /\ UNCHANGED <<variant, config, gw, nrefs, tasks, errlog>>

ChargeRaceSteps ==
  \/ \E c \in Clients, body \in UNION {ChargeBodies(b) : b \in BookingIds},
        safeAmount \in TestAmounts, gwInit \in GatewayAnswers, gwCharge \in GatewayAnswers :
       ProcessMpesaPaymentCharge(c, body, safeAmount, gwInit, gwCharge)
  \/ \E c \in Clients : ProcessMpesaPaymentWrite(c)
  \/ \E ref \in RefIds, outcome \in {"success", "failed"} : GatewayOutcome(ref, outcome)
  \/ \E ref \in RefIds, event \in {"charge.success", "charge.failed"} :
       DeliverWebhook(ref, event, "")

\* The core controller with a live key (the charge sends the STK push at
\* once) and the webhook secret set.
InitCharge == InitAnyEnv /\ variant = "basic" /\ config.secretSet /\ config.keyLive

SpecChargeRace == InitCharge /\ [][ChargeRaceSteps]_vars

\* C33: the ledger record of a reference the gateway has accepted exists
\* before any webhook for that reference is processed: under no interleaving of
\* the initiating handler with handleWebhook is the gateway's webhook for an
\* accepted payment answered 'Transaction not found'.
C33_LedgerRecordBeforeWebhook ==
  last.op = "webhook" => last.code # 404


\* ---------------------------------------------------------------- C34
\* The reference a ledger record names as the one it retries (0: none).
OriginalReference(rec) == Get(Get(rec, "metadata", <<>>), "original_reference", 0)

\* C34: if the gateway charge issued for a retry fails or is rejected, the
\* original transaction is not left in status retrying: whenever no handler is
\* in flight, a ledger record with status retrying has a ledger record whose
\* metadata.original_reference names it.
C34_RetryingHasRetryRecord ==
  NoHandlerInFlight =>
    \A r \in RefIds :
      Status(ledger[r]) = "retrying" =>
        \E x \in RefIds : Exists(ledger[x]) /\ OriginalReference(ledger[x]) = r


\* ---------------------------------------------------------------- C35
\* The status codes a handler passes to res.status(..).json(..), in order. Only
\* the first reaches the client: a later one throws ERR_HTTP_HEADERS_SENT.
\* processMpesaPaymentDirect answers once on each of its paths.
processMpesaPaymentDirectResponses(db, reference, body, gwAns) ==
  << processMpesaPaymentDirect(db, reference, body, gwAns).code >>

\* retryMpesaPayment hands its res to processMpesaPaymentDirect, which answers
\* on it; back in retryMpesaPayment, `return res.status(200).json(..)` throws,
\* and so does the `res.status(500).json(..)` of its catch.
retryMpesaPaymentResponses(db, reference, phone, retryReference, newReference, gwAns) ==
  LET transaction == db.tx[reference]
  IN IF ~Exists(transaction) THEN << 404 >>
     ELSE IF Get(transaction, "status", "") # "failed" THEN << 400 >>
     ELSE processMpesaPaymentDirectResponses(
            db, newReference, RetryBody(transaction, reference, phone), gwAns)
          \o << 200, 500 >>

\* C35: every request is answered exactly once on every path of every
\* handler; in particular retryMpesaPayment, which passes its own response
\* object to processMpesaPaymentDirect and then responds itself, writes exactly
\* one response per retry request.
C35_OneResponsePerRequest ==
  \A ref \in RefIds, newReference \in RefIds, phone \in {<<>>, PhoneLocal},
     gwAns \in GatewayAnswers :
    Len(retryMpesaPaymentResponses(DB, ref, phone, RetryReference(1), newReference,
                                   gwAns)) = 1


\* ---------------------------------------------------------------- C36
\* Some ledger record of booking b has status success.
PaidFor(b) ==
  \E x \in RefIds : Status(ledger[x]) = "success" /\ Get(ledger[x], "bookingId", "") = b

\* C36: cancelPayment sets a booking's status to cancelled only if no ledger
\* record of that booking has status success: cancelling a pending, failed or
\* retrying attempt never cancels a booking that another transaction paid.
C36_CancelSparesPaidBooking ==
  \A ref \in RefIds :
    (/\ "bookingId" \in DOMAIN ledger[ref]
     /\ PaidFor(ledger[ref].bookingId)
     /\ cancelPayment(DB, ref).code = 200)
      => \A rec \in BookingRecords(cancelPayment(DB, ref).db, ledger[ref].bookingId) :
           Status(rec) # "cancelled"


\* ---------------------------------------------------------------- C37
\* The fields of a booking record that only the payment core writes.
CoreFields == {"cancelReason", "bookingFeeReference", "escrowReference", "escrowStatus"}

\* Booking id b has a record, in either store, that the core has written to.
TouchedByCore(b) ==
  \E rec \in BookingRecords(DB, b) : DOMAIN rec \cap CoreFields # {}

\* bookings/{b} and tuition-bookings/{b} hold the same value, or both none,
\* in each of the three fields.
StoresAgree(b) ==
  \A f \in {"status", "bookingFeePaid", "escrowStatus"} :
    Get(bookings[b], f, "absent") = Get(tuition[b], f, "absent")

\* C37: in the extended controller, whenever no handler is in flight,
\* bookings/{id} and tuition-bookings/{id} agree on status, bookingFeePaid and
\* escrowStatus for every booking id the core has written to, so that the
\* record releaseEscrow reads is the one cancelPayment set to cancelled.
C37_BookingStoresAgree ==
  (variant = "ext" /\ NoHandlerInFlight)
    => \A b \in BookingIds : TouchedByCore(b) => StoresAgree(b)


\* ---------------------------------------------------------------- C38
\* The references a request of initializeMpesaPayment sends to the gateway:
\* initReference with /transaction/initialize, always; chargeReference with
\* /charge, which is posted only if isProduction.
SubmittedReferences(cfg, initReference, chargeReference) ==
  {initReference} \cup (IF cfg.isProduction THEN {chargeReference} ELSE {})

\* The ledger records that initializeMpesaPayment wrote.
InitializedRecords == {rec \in {ledger[ref] : ref \in RefIds} : "initReference" \in DOMAIN rec}

\* C38: the reference under which initializeMpesaPayment stores the ledger
\* record, the one it returns to the client, is a reference the same request
\* submitted to the gateway, in production and in non-production mode alike,
\* so that a verify poll or webhook for the payment addresses the stored record.
C38_StoredReferenceSubmitted ==
  variant = "prod"
    => \A rec \in InitializedRecords :
         rec.reference \in SubmittedReferences(config, rec.initReference, rec.reference)
====
